---- MODULE Spec2Model ----
(***************************************************************************)
(* ThrusterTester: the test-execution control loop.                        *)
(*                                                                         *)
(* One TestRunner (src/src/testing/test_runner.py) driving one             *)
(* PWMController (src/src/hardware/pwm_controller.py).  The caller's       *)
(* context (the GUI main thread) calls start, stop, pause, resume and      *)
(* emergency_stop; every successful start spawns a daemon thread that      *)
(* executes _run_test.  Threads interleave with the caller and with each   *)
(* other at every access to shared state.                                  *)
(***************************************************************************)
EXTENDS Integers, Sequences, FiniteSets, TLC

\* Number of execution paths the runner may spawn in one behaviour.
MaxThreads == 2

\* PWMController.set_pwm_us clamps every pulse width to this range.
PWM_CLAMP_LO == 1000
PWM_CLAMP_HI == 2000
\* The pulse width PWMController.emergency_stop and disarm() write,
\* and the value _current_pwm_us and status.current_pwm_us start with.
HW_NEUTRAL_US == 1500
\* Default step_us of PWMController.ramp_to.
RAMP_STEP_US == 25

\* ThrusterConfig plus the runner's step_us: the configurations explored.
\* Each satisfies ConfigFrame.validate (min < max, min <= neutral <= max,
\* 500 <= min, max <= 2500).
Configs ==
    { [min_pwm_us |-> 1475, max_pwm_us |-> 1525, neutral_pwm_us |-> 1500, step_us |-> 25],
      [min_pwm_us |-> 1450, max_pwm_us |-> 1490, neutral_pwm_us |-> 1475, step_us |-> 25] }

Threads == 1..MaxThreads

NoThread == 0

VARIABLES
    config,           \* TestRunner.config and step_us
    pwm_us,           \* PWMController._current_pwm_us
    is_armed,         \* PWMController._is_armed
    status,           \* TestRunner._status (TestStatus)
    stop_requested,   \* TestRunner._stop_requested
    pause_requested,  \* TestRunner._pause_requested
    test_points,      \* TestRunner._test_points: reference into lists
    lists,            \* the list objects: reference -> sequence of TestPoint
    result,           \* TestRunner._result: None or a TestResult
    thread,           \* TestRunner._thread: NoThread or the last thread started
    nthreads,         \* number of threads started so far
    pc,               \* per thread: position in _run_test
    current_pwm,      \* per thread: local current_pwm
    step_count,       \* per thread: local step_count
    total_steps,      \* per thread: local total_steps
    ramp_current,     \* per thread: local current of PWMController.ramp_to
    callerPc,         \* the caller's context: "idle" or blocked in join
    log,              \* per thread: the calls and callbacks it has made, in order
    sets_after_stop,  \* per thread: sweep setpoints commanded under a standing stop request
    lastCall,         \* the caller's last call, when it was a rejected start, a joined stop or an emergency stop
    interrupted,      \* since the last start: a stop, pause, resume, emergency stop or driver fault
                      \* happened, or the start was made while an earlier path was still active
    halted,           \* since the last start: a stop, emergency stop or driver fault happened, or
                      \* the start was made while an earlier path was still active
    waited,           \* since the last start, and with nothing counted by halted:
                      \* a path has waited in the pause loop
    analysis,         \* the analyzer's call: its arguments and, once it has returned, its result
    sampling,         \* the call of _take_measurement: its arguments, the readings so far, its result
    pwm_call,         \* a call made on the PWMController directly: its arguments and locals
    stop_seen         \* per thread: while the path is active, stop() or emergency_stop() has been
                      \* called since the path was started

vars == << config, pwm_us, is_armed, status, stop_requested, pause_requested,
           test_points, lists, result, thread, nthreads, pc, current_pwm,
           step_count, total_steps, ramp_current, callerPc, log,
           sets_after_stop, lastCall, interrupted, halted, waited, analysis,
           sampling, pwm_call, stop_seen >>

runnerVars == << status, stop_requested, pause_requested, test_points, lists, result, thread >>
pwmVars == << pwm_us, is_armed >>
localVars == << current_pwm, step_count, total_steps, ramp_current >>

----------------------------------------------------------------------------
(* Pure helpers *)

Min2(a, b) == IF a < b THEN a ELSE b
Max2(a, b) == IF a > b THEN a ELSE b

\* Faulty variant: the pulse width is stored as commanded.
set_pwm_us_unclamped(pulse_us) == pulse_us

\* PWMController.set_pwm_us: the value stored in _current_pwm_us.
set_pwm_us(pulse_us) == Max2(PWM_CLAMP_LO, Min2(PWM_CLAMP_HI, pulse_us))

\* total_steps = (max - min) // step + 1
TotalSteps(c) == ((c.max_pwm_us - c.min_pwm_us) \div c.step_us) + 1

\* One iteration of PWMController.ramp_to: the next value of its local current.
ramp_next(current, target_us) ==
    IF target_us > current
    THEN Min2(current + RAMP_STEP_US, target_us)
    ELSE Max2(current - RAMP_STEP_US, target_us)

TestPoint(p) == [pwm_us |-> p]

\* Optional values: None is the empty sequence, a value v is <<v>>.
None == << >>
Some(v) == << v >>

Event(k, a, b) == [kind |-> k, val |-> <<a, b>>]

\* Faulty variant: the sweep loop reads a flag that stop() never sets.
StopObserved_never == FALSE

\* The read of self._stop_requested in the sweep loop.
StopObserved == stop_requested

\* The read of self._pause_requested in the sweep loop.
PauseObserved == pause_requested

Active(t) == pc[t] \notin {"none", "done"}

\* No analyzer call is being modelled.
NoAnalysis == << >>

\* No call of _take_measurement is being modelled.
NoSampling == << >>

\* No direct call on the PWMController is in progress.
NoCall == << >>

----------------------------------------------------------------------------
Init ==
    /\ config \in Configs
    /\ pwm_us = HW_NEUTRAL_US
    /\ is_armed = FALSE
    /\ status = [is_running |-> FALSE, is_paused |-> FALSE,
                 current_pwm_us |-> HW_NEUTRAL_US,
                 progress_percent |-> <<0, 1>>,
                 current_point |-> None, error_message |-> "None"]
    /\ stop_requested = FALSE
    /\ pause_requested = FALSE
    /\ test_points = 0
    /\ lists = [i \in 0..MaxThreads |-> << >>]
    /\ result = None
    /\ thread = NoThread
    /\ nthreads = 0
    /\ pc = [t \in Threads |-> "none"]
    /\ current_pwm = [t \in Threads |-> 0]
    /\ step_count = [t \in Threads |-> 0]
    /\ total_steps = [t \in Threads |-> 0]
    /\ ramp_current = [t \in Threads |-> 0]
    /\ callerPc = "idle"
    /\ log = [t \in Threads |-> << >>]
    /\ sets_after_stop = [t \in Threads |-> 0]
    /\ lastCall = "other"
    /\ interrupted = FALSE
    /\ halted = FALSE
    /\ waited = FALSE
    /\ analysis = NoAnalysis
    /\ sampling = NoSampling
    /\ pwm_call = NoCall
    /\ stop_seen = [t \in Threads |-> FALSE]

----------------------------------------------------------------------------
(* The caller's context: the public methods of TestRunner *)

\* Faulty variant: start() without its is_running check.
start_unguarded ==
    /\ callerPc = "idle"
    /\ nthreads < MaxThreads
    /\ stop_requested' = FALSE
    /\ pause_requested' = FALSE
    /\ nthreads' = nthreads + 1
    /\ test_points' = nthreads'
    /\ lists' = [lists EXCEPT ![nthreads'] = << >>]
    /\ result' = None
    /\ thread' = nthreads'
    /\ pc' = [pc EXCEPT ![nthreads'] = "begin"]
    /\ sets_after_stop' = [t \in Threads |-> 0]
    /\ interrupted' = (\E t \in Threads : Active(t))
    /\ halted' = (\E t \in Threads : Active(t))
    /\ waited' = FALSE
    /\ lastCall' = "other"
    /\ UNCHANGED << config, analysis, sampling, pwm_call, stop_seen, pwmVars, status, localVars, callerPc, log >>

\* Faulty variant: start keeps the stop and pause requests of earlier calls.
start_keeps_requests ==
    /\ callerPc = "idle"
    /\ IF status.is_running
       THEN /\ lastCall' = "start_rejected"
            /\ UNCHANGED << runnerVars, nthreads, pc, sets_after_stop, interrupted, halted, waited >>
       ELSE /\ nthreads < MaxThreads
            /\ UNCHANGED << stop_requested, pause_requested >>
            /\ nthreads' = nthreads + 1
            /\ test_points' = nthreads'
            /\ lists' = [lists EXCEPT ![nthreads'] = << >>]
            /\ result' = None
            /\ thread' = nthreads'
            /\ pc' = [pc EXCEPT ![nthreads'] = "begin"]
            /\ sets_after_stop' = [t \in Threads |-> 0]
            /\ interrupted' = (\E t \in Threads : Active(t))
            /\ halted' = (\E t \in Threads : Active(t))
            /\ waited' = FALSE
            /\ lastCall' = "other"
            /\ UNCHANGED status
    /\ UNCHANGED << config, analysis, sampling, pwm_call, stop_seen, pwmVars, localVars, callerPc, log >>

\* TestRunner.start
start ==
    /\ callerPc = "idle"
    /\ IF status.is_running
       THEN /\ lastCall' = "start_rejected"
            /\ UNCHANGED << runnerVars, nthreads, pc, sets_after_stop, interrupted, halted, waited >>
       ELSE /\ nthreads < MaxThreads
            /\ stop_requested' = FALSE
            /\ pause_requested' = FALSE
            /\ nthreads' = nthreads + 1
            /\ test_points' = nthreads'
            /\ lists' = [lists EXCEPT ![nthreads'] = << >>]
            /\ result' = None
            /\ thread' = nthreads'
            /\ pc' = [pc EXCEPT ![nthreads'] = "begin"]
            /\ sets_after_stop' = [t \in Threads |-> 0]
            /\ interrupted' = (\E t \in Threads : Active(t))
            /\ halted' = (\E t \in Threads : Active(t))
            /\ waited' = FALSE
            /\ lastCall' = "other"
            /\ UNCHANGED status
    /\ UNCHANGED << config, analysis, sampling, pwm_call, stop_seen, pwmVars, localVars, callerPc, log >>

\* TestRunner.stop, up to the join
stop ==
    /\ callerPc = "idle"
    /\ stop_requested' = TRUE
    /\ callerPc' = IF thread # NoThread THEN "join" ELSE "idle"
    /\ lastCall' = "other"
    /\ interrupted' = TRUE
    /\ halted' = TRUE
    /\ waited' = FALSE
    /\ stop_seen' = [t \in Threads |-> stop_seen[t] \/ Active(t)]
    /\ UNCHANGED << config, analysis, sampling, pwm_call, pwmVars, status, pause_requested, test_points, lists,
                    result, thread, nthreads, pc, localVars, log, sets_after_stop >>

\* TestRunner.stop: join returns because the thread has ended
stop_joined ==
    /\ callerPc = "join"
    /\ pc[thread] = "done"
    /\ callerPc' = "idle"
    /\ lastCall' = "stop_joined"
    /\ UNCHANGED << config, analysis, sampling, pwm_call, stop_seen, pwmVars, runnerVars, nthreads, pc, localVars, log,
                    sets_after_stop, interrupted, halted, waited >>

\* TestRunner.stop: join returns because its timeout of 5.0 s elapsed
stop_timeout ==
    /\ callerPc = "join"
    /\ pc[thread] # "done"
    /\ callerPc' = "idle"
    /\ lastCall' = "other"
    /\ UNCHANGED << config, analysis, sampling, pwm_call, stop_seen, pwmVars, runnerVars, nthreads, pc, localVars, log,
                    sets_after_stop, interrupted, halted, waited >>

\* TestRunner.pause
pause ==
    /\ callerPc = "idle"
    /\ pause_requested' = TRUE
    /\ status' = [status EXCEPT !.is_paused = TRUE]
    /\ lastCall' = "other"
    /\ interrupted' = TRUE
    /\ UNCHANGED << halted, waited >>
    /\ UNCHANGED << config, analysis, sampling, pwm_call, stop_seen, pwmVars, stop_requested, test_points, lists, result,
                    thread, nthreads, pc, localVars, callerPc, log, sets_after_stop >>

\* TestRunner.resume
resume ==
    /\ callerPc = "idle"
    /\ pause_requested' = FALSE
    /\ status' = [status EXCEPT !.is_paused = FALSE]
    /\ lastCall' = "other"
    /\ interrupted' = TRUE
    /\ UNCHANGED << halted, waited >>
    /\ UNCHANGED << config, analysis, sampling, pwm_call, stop_seen, pwmVars, stop_requested, test_points, lists, result,
                    thread, nthreads, pc, localVars, callerPc, log, sets_after_stop >>

\* TestRunner.emergency_stop, with PWMController.emergency_stop
emergency_stop ==
    /\ callerPc = "idle"
    /\ stop_requested' = TRUE
    /\ pwm_us' = set_pwm_us(HW_NEUTRAL_US)
    /\ is_armed' = FALSE
    /\ status' = [status EXCEPT !.is_running = FALSE, !.is_paused = FALSE]
    /\ lastCall' = "emergency_stop"
    /\ interrupted' = TRUE
    /\ halted' = TRUE
    /\ waited' = FALSE
    /\ stop_seen' = [t \in Threads |-> stop_seen[t] \/ Active(t)]
    /\ UNCHANGED << config, analysis, sampling, pwm_call, pause_requested, test_points, lists, result, thread,
                    nthreads, pc, localVars, callerPc, log, sets_after_stop >>

----------------------------------------------------------------------------
(* The execution path: TestRunner._run_test, one action per access to      *)
(* shared state                                                            *)

Goto(t, l) == pc' = [pc EXCEPT ![t] = l]

Logged(t, e) == log' = [log EXCEPT ![t] = Append(@, e)]

\* is_running = True; error_message = None
run_begin(t) ==
    /\ pc[t] = "begin"
    /\ status' = [status EXCEPT !.is_running = TRUE, !.error_message = "None"]
    /\ Goto(t, "arm")
    /\ UNCHANGED << config, analysis, sampling, pwm_call, stop_seen, pwmVars, stop_requested, pause_requested, test_points,
                    lists, result, thread, nthreads, localVars, callerPc, log,
                    sets_after_stop, lastCall, interrupted, halted, waited >>

\* pwm.arm(neutral): set_pwm_us(neutral), then the 2.0 s wait begins
run_arm(t) ==
    /\ pc[t] = "arm"
    /\ pwm_us' = set_pwm_us(config.neutral_pwm_us)
    /\ Logged(t, Event("arm", config.neutral_pwm_us, 0))
    /\ Goto(t, "arm_wait")
    /\ UNCHANGED << config, analysis, sampling, pwm_call, stop_seen, is_armed, runnerVars, nthreads, localVars, callerPc,
                    sets_after_stop, lastCall, interrupted, halted, waited >>

\* Faulty variant: after arming the path goes on to the ramp without taring.
run_armed_skips_tare(t) ==
    /\ pc[t] = "arm_wait"
    /\ is_armed' = TRUE
    /\ Goto(t, "ramp_start")
    /\ UNCHANGED << config, analysis, sampling, pwm_call, stop_seen, pwm_us, runnerVars, nthreads, localVars, callerPc, log,
                    sets_after_stop, lastCall, interrupted, halted, waited >>

\* pwm.arm: after the wait, _is_armed = True
run_armed(t) ==
    /\ pc[t] = "arm_wait"
    /\ is_armed' = TRUE
    /\ Goto(t, "tare")
    /\ UNCHANGED << config, analysis, sampling, pwm_call, stop_seen, pwm_us, runnerVars, nthreads, localVars, callerPc, log,
                    sets_after_stop, lastCall, interrupted, halted, waited >>

\* load_cell.tare() returns; total_steps is computed
run_tare(t) ==
    /\ pc[t] = "tare"
    /\ total_steps' = [total_steps EXCEPT ![t] = TotalSteps(config)]
    /\ Logged(t, Event("tare", 0, 0))
    /\ Goto(t, "ramp_start")
    /\ UNCHANGED << config, analysis, sampling, pwm_call, stop_seen, pwmVars, runnerVars, nthreads, current_pwm, step_count,
                    ramp_current, callerPc, sets_after_stop, lastCall, interrupted, halted, waited >>

\* load_cell.tare() raises
run_tare_raises(t) ==
    /\ pc[t] = "tare"
    /\ Logged(t, Event("raise", 0, 0))
    /\ Goto(t, "except")
    /\ interrupted' = TRUE
    /\ halted' = TRUE
    /\ waited' = FALSE
    /\ UNCHANGED << config, analysis, sampling, pwm_call, stop_seen, pwmVars, runnerVars, nthreads, localVars, callerPc,
                    sets_after_stop, lastCall >>

\* PWMController.ramp_to: current = self._current_pwm_us; an empty ramp returns
ramp_to_enter(t, at, target_us, loop, after) ==
    /\ pc[t] = at
    /\ ramp_current' = [ramp_current EXCEPT ![t] = pwm_us]
    /\ Logged(t, Event("ramp_to", target_us, 0))
    /\ Goto(t, IF pwm_us = target_us THEN after ELSE loop)
    /\ UNCHANGED << config, analysis, sampling, pwm_call, stop_seen, pwmVars, runnerVars, nthreads, current_pwm, step_count,
                    total_steps, callerPc, sets_after_stop, lastCall, interrupted, halted, waited >>

\* PWMController.ramp_to: one iteration of its loop
ramp_to_step(t, at, target_us, after) ==
    /\ pc[t] = at
    /\ LET nxt == ramp_next(ramp_current[t], target_us) IN
        /\ ramp_current' = [ramp_current EXCEPT ![t] = nxt]
        /\ pwm_us' = set_pwm_us(nxt)
        /\ Goto(t, IF nxt = target_us THEN after ELSE at)
    /\ UNCHANGED << config, analysis, sampling, pwm_call, stop_seen, is_armed, runnerVars, nthreads, current_pwm, step_count,
                    total_steps, callerPc, log, sets_after_stop, lastCall, interrupted, halted, waited >>

\* pwm.ramp_to(min): entry
run_ramp_start(t) ==
    ramp_to_enter(t, "ramp_start", config.min_pwm_us, "ramp_start_loop", "sweep_init")

\* pwm.ramp_to(min): loop
run_ramp_start_loop(t) ==
    ramp_to_step(t, "ramp_start_loop", config.min_pwm_us, "sweep_init")

\* the stabilization wait; current_pwm = min; step_count = 0
run_sweep_init(t) ==
    /\ pc[t] = "sweep_init"
    /\ current_pwm' = [current_pwm EXCEPT ![t] = config.min_pwm_us]
    /\ step_count' = [step_count EXCEPT ![t] = 0]
    /\ Goto(t, "sweep_head")
    /\ UNCHANGED << config, analysis, sampling, pwm_call, stop_seen, pwmVars, runnerVars, nthreads, total_steps, ramp_current,
                    callerPc, log, sets_after_stop, lastCall, interrupted, halted, waited >>

\* Faulty variant: the loop condition is current_pwm < max.
run_sweep_head_strict(t) ==
    /\ pc[t] = "sweep_head"
    /\ Goto(t, IF current_pwm[t] >= config.max_pwm_us \/ StopObserved
               THEN "return_neutral" ELSE "pause_check")
    /\ UNCHANGED << config, analysis, sampling, pwm_call, stop_seen, pwmVars, runnerVars, nthreads, localVars, callerPc, log,
                    sets_after_stop, lastCall, interrupted, halted, waited >>

\* while current_pwm <= max: if self._stop_requested: break
run_sweep_head(t) ==
    /\ pc[t] = "sweep_head"
    /\ Goto(t, IF current_pwm[t] > config.max_pwm_us \/ StopObserved
               THEN "return_neutral" ELSE "pause_check")
    /\ UNCHANGED << config, analysis, sampling, pwm_call, stop_seen, pwmVars, runnerVars, nthreads, localVars, callerPc, log,
                    sets_after_stop, lastCall, interrupted, halted, waited >>

\* while self._pause_requested:
run_pause_check(t) ==
    /\ pc[t] = "pause_check"
    /\ Goto(t, IF PauseObserved THEN "pause_sleep" ELSE "stop_check")
    /\ waited' = (~halted /\ (waited \/ PauseObserved))
    /\ UNCHANGED << config, analysis, sampling, pwm_call, stop_seen, pwmVars, runnerVars, nthreads, localVars, callerPc, log,
                    sets_after_stop, lastCall, interrupted, halted >>

\* Faulty variant: the pause loop does not look at the stop request.
run_pause_sleep_deaf(t) ==
    /\ pc[t] = "pause_sleep"
    /\ Goto(t, "pause_check")
    /\ UNCHANGED << config, analysis, sampling, pwm_call, stop_seen, pwmVars, runnerVars, nthreads, localVars, callerPc, log,
                    sets_after_stop, lastCall, interrupted, halted, waited >>

\* Faulty variant: a path that finds the pause lifted moves on to the next
\* setpoint.
run_pause_sleep_skips(t) ==
    /\ pc[t] = "pause_sleep"
    /\ Goto(t, IF StopObserved THEN "stop_check" ELSE "pause_check")
    /\ current_pwm' = [current_pwm EXCEPT
                         ![t] = IF StopObserved \/ PauseObserved THEN @ ELSE @ + config.step_us]
    /\ UNCHANGED << config, analysis, sampling, pwm_call, stop_seen, pwmVars, runnerVars, nthreads, step_count, total_steps,
                    ramp_current, callerPc, log, sets_after_stop, lastCall, interrupted,
                    halted, waited >>

\* time.sleep(0.1); if self._stop_requested: break
run_pause_sleep(t) ==
    /\ pc[t] = "pause_sleep"
    /\ Goto(t, IF StopObserved THEN "stop_check" ELSE "pause_check")
    /\ UNCHANGED << config, analysis, sampling, pwm_call, stop_seen, pwmVars, runnerVars, nthreads, localVars, callerPc, log,
                    sets_after_stop, lastCall, interrupted, halted, waited >>

\* Faulty variant: a stop seen after the pause loop returns at once, skipping the
\* return to neutral.
run_stop_check_return(t) ==
    /\ pc[t] = "stop_check"
    /\ Goto(t, IF StopObserved THEN "finish" ELSE "set_pwm")
    /\ UNCHANGED << config, analysis, sampling, pwm_call, stop_seen, pwmVars, runnerVars, nthreads, localVars, callerPc, log,
                    sets_after_stop, lastCall, interrupted, halted, waited >>

\* if self._stop_requested: break   (after the pause loop)
run_stop_check(t) ==
    /\ pc[t] = "stop_check"
    /\ Goto(t, IF StopObserved THEN "return_neutral" ELSE "set_pwm")
    /\ UNCHANGED << config, analysis, sampling, pwm_call, stop_seen, pwmVars, runnerVars, nthreads, localVars, callerPc, log,
                    sets_after_stop, lastCall, interrupted, halted, waited >>

\* self.pwm.set_pwm_us(current_pwm), then the stabilization wait begins
run_set_pwm(t) ==
    /\ pc[t] = "set_pwm"
    /\ pwm_us' = set_pwm_us(current_pwm[t])
    /\ Logged(t, Event("set_pwm", current_pwm[t], 0))
    /\ sets_after_stop' = [sets_after_stop EXCEPT
                             ![t] = IF stop_requested THEN @ + 1 ELSE @]
    /\ Goto(t, "measure")
    /\ UNCHANGED << config, analysis, sampling, pwm_call, stop_seen, is_armed, runnerVars, nthreads, localVars, callerPc,
                    lastCall, interrupted, halted, waited >>

\* Faulty variant: the setpoint is advanced only every second step, so a
\* setpoint is measured twice.
run_measure_repeats(t) ==
    /\ pc[t] = "measure"
    /\ LET point == TestPoint(current_pwm[t])
           count == step_count[t] + 1
           progress == << count * 100, total_steps[t] >>
       IN
        /\ lists' = [lists EXCEPT ![test_points] = Append(@, point)]
        /\ status' = [status EXCEPT !.current_pwm_us = current_pwm[t],
                                    !.current_point = Some(point),
                                    !.progress_percent = progress]
        /\ step_count' = [step_count EXCEPT ![t] = count]
        /\ log' = [log EXCEPT ![t] =
                     @ \o << Event("point", current_pwm[t], 0),
                             Event("progress", progress[1], progress[2]) >>]
    /\ current_pwm' = [current_pwm EXCEPT ![t] = IF step_count[t] % 2 = 0 THEN @ ELSE @ + config.step_us]
    /\ Goto(t, "sweep_head")
    /\ UNCHANGED << config, analysis, sampling, pwm_call, stop_seen, pwmVars, stop_requested, pause_requested, test_points,
                    result, thread, nthreads, total_steps, ramp_current, callerPc,
                    sets_after_stop, lastCall, interrupted, halted, waited >>

\* Faulty variant: the setpoint is not advanced after a measurement, as with
\* a step of zero.
run_measure_stays(t) ==
    /\ pc[t] = "measure"
    /\ LET point == TestPoint(current_pwm[t])
           count == step_count[t] + 1
           progress == << count * 100, total_steps[t] >>
       IN
        /\ lists' = [lists EXCEPT ![test_points] = Append(@, point)]
        /\ status' = [status EXCEPT !.current_pwm_us = current_pwm[t],
                                    !.current_point = Some(point),
                                    !.progress_percent = progress]
        /\ step_count' = [step_count EXCEPT ![t] = count]
        /\ log' = [log EXCEPT ![t] =
                     @ \o << Event("point", current_pwm[t], 0),
                             Event("progress", progress[1], progress[2]) >>]
    /\ UNCHANGED current_pwm
    /\ Goto(t, "sweep_head")
    /\ UNCHANGED << config, analysis, sampling, pwm_call, stop_seen, pwmVars, stop_requested, pause_requested, test_points,
                    result, thread, nthreads, total_steps, ramp_current, callerPc,
                    sets_after_stop, lastCall, interrupted, halted, waited >>

\* Faulty variant: progress divides by the number of strides, one less than
\* the number of setpoints.
run_measure_per_stride(t) ==
    /\ pc[t] = "measure"
    /\ LET point == TestPoint(current_pwm[t])
           count == step_count[t] + 1
           progress == << count * 100, total_steps[t] - 1 >>
       IN
        /\ lists' = [lists EXCEPT ![test_points] = Append(@, point)]
        /\ status' = [status EXCEPT !.current_pwm_us = current_pwm[t],
                                    !.current_point = Some(point),
                                    !.progress_percent = progress]
        /\ step_count' = [step_count EXCEPT ![t] = count]
        /\ log' = [log EXCEPT ![t] =
                     @ \o << Event("point", current_pwm[t], 0),
                             Event("progress", progress[1], progress[2]) >>]
    /\ current_pwm' = [current_pwm EXCEPT ![t] = @ + config.step_us]
    /\ Goto(t, "sweep_head")
    /\ UNCHANGED << config, analysis, sampling, pwm_call, stop_seen, pwmVars, stop_requested, pause_requested, test_points,
                    result, thread, nthreads, total_steps, ramp_current, callerPc,
                    sets_after_stop, lastCall, interrupted, halted, waited >>

\* Faulty variant: progress reports the share of steps still to do.
run_measure_countdown(t) ==
    /\ pc[t] = "measure"
    /\ LET point == TestPoint(current_pwm[t])
           count == step_count[t] + 1
           progress == << (total_steps[t] - count) * 100, total_steps[t] >>
       IN
        /\ lists' = [lists EXCEPT ![test_points] = Append(@, point)]
        /\ status' = [status EXCEPT !.current_pwm_us = current_pwm[t],
                                    !.current_point = Some(point),
                                    !.progress_percent = progress]
        /\ step_count' = [step_count EXCEPT ![t] = count]
        /\ log' = [log EXCEPT ![t] =
                     @ \o << Event("point", current_pwm[t], 0),
                             Event("progress", progress[1], progress[2]) >>]
    /\ current_pwm' = [current_pwm EXCEPT ![t] = @ + config.step_us]
    /\ Goto(t, "sweep_head")
    /\ UNCHANGED << config, analysis, sampling, pwm_call, stop_seen, pwmVars, stop_requested, pause_requested, test_points,
                    result, thread, nthreads, total_steps, ramp_current, callerPc,
                    sets_after_stop, lastCall, interrupted, halted, waited >>

\* Faulty variant: the next setpoint is clipped to max, so max is measured
\* even when the stride does not reach it.
run_measure_clips(t) ==
    /\ pc[t] = "measure"
    /\ LET point == TestPoint(current_pwm[t])
           count == step_count[t] + 1
           progress == << count * 100, total_steps[t] >>
       IN
        /\ lists' = [lists EXCEPT ![test_points] = Append(@, point)]
        /\ status' = [status EXCEPT !.current_pwm_us = current_pwm[t],
                                    !.current_point = Some(point),
                                    !.progress_percent = progress]
        /\ step_count' = [step_count EXCEPT ![t] = count]
        /\ log' = [log EXCEPT ![t] =
                     @ \o << Event("point", current_pwm[t], 0),
                             Event("progress", progress[1], progress[2]) >>]
    /\ current_pwm' = [current_pwm EXCEPT ![t] = IF @ < config.max_pwm_us THEN Min2(@ + config.step_us, config.max_pwm_us)
                                               ELSE @ + config.step_us]
    /\ Goto(t, "sweep_head")
    /\ UNCHANGED << config, analysis, sampling, pwm_call, stop_seen, pwmVars, stop_requested, pause_requested, test_points,
                    result, thread, nthreads, total_steps, ramp_current, callerPc,
                    sets_after_stop, lastCall, interrupted, halted, waited >>

\* _take_measurement returns: append, status, callbacks, current_pwm += step
run_measure(t) ==
    /\ pc[t] = "measure"
    /\ LET point == TestPoint(current_pwm[t])
           count == step_count[t] + 1
           progress == << count * 100, total_steps[t] >>
       IN
        /\ lists' = [lists EXCEPT ![test_points] = Append(@, point)]
        /\ status' = [status EXCEPT !.current_pwm_us = current_pwm[t],
                                    !.current_point = Some(point),
                                    !.progress_percent = progress]
        /\ step_count' = [step_count EXCEPT ![t] = count]
        /\ log' = [log EXCEPT ![t] =
                     @ \o << Event("point", current_pwm[t], 0),
                             Event("progress", progress[1], progress[2]) >>]
    /\ current_pwm' = [current_pwm EXCEPT ![t] = @ + config.step_us]
    /\ Goto(t, "sweep_head")
    /\ UNCHANGED << config, analysis, sampling, pwm_call, stop_seen, pwmVars, stop_requested, pause_requested, test_points,
                    result, thread, nthreads, total_steps, ramp_current, callerPc,
                    sets_after_stop, lastCall, interrupted, halted, waited >>

\* _take_measurement raises (a sensor read fails)
run_measure_raises(t) ==
    /\ pc[t] = "measure"
    /\ Logged(t, Event("raise", current_pwm[t], 0))
    /\ Goto(t, "except")
    /\ interrupted' = TRUE
    /\ halted' = TRUE
    /\ waited' = FALSE
    /\ UNCHANGED << config, analysis, sampling, pwm_call, stop_seen, pwmVars, runnerVars, nthreads, localVars, callerPc,
                    sets_after_stop, lastCall >>

\* pwm.ramp_to(neutral): entry
run_return_neutral(t) ==
    ramp_to_enter(t, "return_neutral", config.neutral_pwm_us, "return_neutral_loop", "disarm")

\* pwm.ramp_to(neutral): loop
run_return_neutral_loop(t) ==
    ramp_to_step(t, "return_neutral_loop", config.neutral_pwm_us, "disarm")

\* pwm.disarm(): set_pwm_us(1500); _is_armed = False
run_disarm(t) ==
    /\ pc[t] = "disarm"
    /\ pwm_us' = set_pwm_us(HW_NEUTRAL_US)
    /\ is_armed' = FALSE
    /\ Logged(t, Event("disarm", HW_NEUTRAL_US, 0))
    /\ Goto(t, "finish")
    /\ UNCHANGED << config, analysis, sampling, pwm_call, stop_seen, runnerVars, nthreads, localVars, callerPc,
                    sets_after_stop, lastCall, interrupted, halted, waited >>

\* Faulty variant: the complete callback is called whether or not a stop
\* request stands.
run_finish_always_completes(t) ==
    /\ pc[t] = "finish"
    /\ result' = Some([test_points |-> test_points])
    /\ log' = [log EXCEPT ![t] =
                 Append(@, Event("complete", Len(lists[test_points]), 0))]
    /\ status' = [status EXCEPT !.is_running = FALSE, !.is_paused = FALSE]
    /\ Goto(t, "done")
    /\ stop_seen' = [stop_seen EXCEPT ![t] = FALSE]
    /\ UNCHANGED << config, analysis, sampling, pwm_call, pwmVars, stop_requested, pause_requested, test_points,
                    lists, thread, nthreads, localVars, callerPc, sets_after_stop,
                    lastCall, interrupted, halted, waited >>

\* analyze, self._result = TestResult(...), the complete callback; finally
run_finish(t) ==
    /\ pc[t] = "finish"
    /\ result' = Some([test_points |-> test_points])
    /\ log' = [log EXCEPT ![t] =
                 IF stop_requested THEN @
                 ELSE Append(@, Event("complete", Len(lists[test_points]), 0))]
    /\ status' = [status EXCEPT !.is_running = FALSE, !.is_paused = FALSE]
    /\ Goto(t, "done")
    /\ stop_seen' = [stop_seen EXCEPT ![t] = FALSE]
    /\ UNCHANGED << config, analysis, sampling, pwm_call, pwmVars, stop_requested, pause_requested, test_points,
                    lists, thread, nthreads, localVars, callerPc, sets_after_stop,
                    lastCall, interrupted, halted, waited >>

\* Faulty variant: the handler does not call pwm.emergency_stop().
run_except_no_estop(t) ==
    /\ pc[t] = "except"
    /\ status' = [status EXCEPT !.error_message = "Test error",
                                !.is_running = FALSE, !.is_paused = FALSE]
    /\ Logged(t, Event("error", 0, 0))
    /\ Goto(t, "done")
    /\ stop_seen' = [stop_seen EXCEPT ![t] = FALSE]
    /\ UNCHANGED << config, analysis, sampling, pwm_call, pwmVars, stop_requested, pause_requested, test_points,
                    lists, result, thread, nthreads, localVars, callerPc,
                    sets_after_stop, lastCall, interrupted, halted, waited >>

\* Faulty variant: the handler swallows the exception and control falls through to
\* the completion code.
run_except_falls_through(t) ==
    /\ pc[t] = "except"
    /\ pwm_us' = set_pwm_us(HW_NEUTRAL_US)
    /\ is_armed' = FALSE
    /\ status' = [status EXCEPT !.error_message = "Test error"]
    /\ log' = [log EXCEPT ![t] =
                 @ \o << Event("emergency_stop", HW_NEUTRAL_US, 0),
                         Event("error", 0, 0) >>]
    /\ Goto(t, "finish")
    /\ UNCHANGED << config, analysis, sampling, pwm_call, stop_seen, stop_requested, pause_requested, test_points, lists,
                    result, thread, nthreads, localVars, callerPc, sets_after_stop,
                    lastCall, interrupted, halted, waited >>

\* Faulty variant: after the error event the handler resumes the sweep.
run_except_resumes(t) ==
    /\ pc[t] = "except"
    /\ pwm_us' = set_pwm_us(HW_NEUTRAL_US)
    /\ is_armed' = FALSE
    /\ status' = [status EXCEPT !.error_message = "Test error"]
    /\ log' = [log EXCEPT ![t] =
                 @ \o << Event("emergency_stop", HW_NEUTRAL_US, 0),
                         Event("error", 0, 0) >>]
    /\ current_pwm' = [current_pwm EXCEPT ![t] = Max2(@, config.min_pwm_us) + config.step_us]
    /\ Goto(t, "sweep_head")
    /\ UNCHANGED << config, analysis, sampling, pwm_call, stop_seen, stop_requested, pause_requested, test_points, lists,
                    result, thread, nthreads, step_count, total_steps, ramp_current,
                    callerPc, sets_after_stop, lastCall, interrupted, halted, waited >>

\* except Exception: error_message, pwm.emergency_stop(), the error callback; finally
run_except(t) ==
    /\ pc[t] = "except"
    /\ pwm_us' = set_pwm_us(HW_NEUTRAL_US)
    /\ is_armed' = FALSE
    /\ status' = [status EXCEPT !.error_message = "Test error",
                                !.is_running = FALSE, !.is_paused = FALSE]
    /\ log' = [log EXCEPT ![t] =
                 @ \o << Event("emergency_stop", HW_NEUTRAL_US, 0),
                         Event("error", 0, 0) >>]
    /\ Goto(t, "done")
    /\ stop_seen' = [stop_seen EXCEPT ![t] = FALSE]
    /\ UNCHANGED << config, analysis, sampling, pwm_call, stop_requested, pause_requested, test_points, lists,
                    result, thread, nthreads, localVars, callerPc, sets_after_stop,
                    lastCall, interrupted, halted, waited >>

\* TestRunner._run_test
run_test(t) ==
    \/ run_begin(t)
    \/ run_arm(t)
    \/ run_armed(t)
    \/ run_tare(t)
    \/ run_tare_raises(t)
    \/ run_ramp_start(t)
    \/ run_ramp_start_loop(t)
    \/ run_sweep_init(t)
    \/ run_sweep_head(t)
    \/ run_pause_check(t)
    \/ run_pause_sleep(t)
    \/ run_stop_check(t)
    \/ run_set_pwm(t)
    \/ run_measure(t)
    \/ run_measure_raises(t)
    \/ run_return_neutral(t)
    \/ run_return_neutral_loop(t)
    \/ run_disarm(t)
    \/ run_finish(t)
    \/ run_except(t)

Next ==
    \/ start
    \/ stop
    \/ stop_joined
    \/ stop_timeout
    \/ pause
    \/ resume
    \/ emergency_stop
    \/ \E t \in Threads : run_test(t)

Spec == Init /\ [][Next]_vars

\* The runs of the configuration whose neutral is the hardware neutral.
InitFair == Init /\ config.neutral_pwm_us = HW_NEUTRAL_US

\* Every started thread is scheduled again and again by the interpreter:
\* a thread that can take a step eventually takes one.
SpecFair == InitFair /\ [][Next]_vars /\ \A t \in Threads : WF_vars(run_test(t))

----------------------------------------------------------------------------
(* Reading the per-thread logs *)

CountKind(t, k) == Cardinality({i \in DOMAIN log[t] : log[t][i].kind = k})

HasKind(t, k) == \E i \in DOMAIN log[t] : log[t][i].kind = k

\* The values of the entries of kind k, in order.
ValuesOf(t, k) ==
    LET F[i \in 0..Len(log[t])] ==
          IF i = 0 THEN << >>
          ELSE IF log[t][i].kind = k THEN Append(F[i-1], log[t][i].val[1])
               ELSE F[i-1]
    IN F[Len(log[t])]

\* The setpoints of an uninterrupted sweep: min, min+step, ..., floor((max-min)/step)+1 of them.
ExpectedSetpoints(c) ==
    [i \in 1..(((c.max_pwm_us - c.min_pwm_us) \div c.step_us) + 1) |->
        c.min_pwm_us + (i - 1) * c.step_us]

PointSetpoints(seq) == [i \in 1..Len(seq) |-> seq[i].pwm_us]

\* The post-sweep neutral return: the second ramp_to, to neutral, followed by disarm.
NeutralReturnDone(t) ==
    \E i \in DOMAIN log[t] :
        /\ log[t][i].kind = "ramp_to"
        /\ log[t][i].val[1] = config.neutral_pwm_us
        /\ Cardinality({j \in 1..i : log[t][j].kind = "ramp_to"}) = 2
        /\ i + 1 \in DOMAIN log[t]
        /\ log[t][i+1].kind = "disarm"

----------------------------------------------------------------------------
(* Claims *)

\* C1: when an execution path has terminated (normal completion, stop,
\* emergency stop or exception), the actuator holds the configured neutral
\* setpoint and is disarmed.  Stated for behaviours with a single execution
\* path, so that nothing but that path and the caller commands the actuator.
C1_ExitAtConfiguredNeutral ==
    \A t \in Threads :
        (pc[t] = "done" /\ nthreads = 1)
            => (pwm_us = config.neutral_pwm_us /\ ~is_armed)

\* C2: once emergency_stop() has returned (and the caller has made no call
\* since), the actuator holds the neutral setpoint and is disarmed, whatever
\* the execution path does next.  Stated for configurations whose neutral is
\* the value the emergency path writes.
C2_EmergencyStopHolds ==
    (lastCall = "emergency_stop" /\ config.neutral_pwm_us = HW_NEUTRAL_US)
        => (pwm_us = config.neutral_pwm_us /\ ~is_armed)

\* C6: at most one execution path is active at any time.
C6_SingleExecutionPath ==
    Cardinality({t \in Threads : Active(t)}) <= 1

\* C10: every run emits at most one terminal event: at most one complete or
\* one error event, never both and never two of a kind.
C10_AtMostOneTerminalEvent ==
    \A t \in Threads : CountKind(t, "complete") + CountKind(t, "error") <= 1

\* C10 witness: a run that has ended with its complete event, beside one
\* that has ended with its error event.
C10_Witness ==
    \E t, u \in Threads :
        /\ pc[t] = "done" /\ CountKind(t, "complete") = 1
        /\ pc[u] = "done" /\ CountKind(u, "error") = 1

\* The log of a run that raised ends with the raise, the emergency path and
\* the error event, in that order, with nothing commanded after the raise.
RaisedTail(t) ==
    LET n == Len(log[t]) IN
        /\ n >= 3
        /\ log[t][n-2].kind = "raise"
        /\ log[t][n-1].kind = "emergency_stop"
        /\ log[t][n].kind = "error"

\* C3, in the states: a run in which a sensor operation raised (taring or
\* sampling) is in its handler or has ended; when it has ended it has invoked
\* the emergency path, emitted exactly one error event and no complete event,
\* and commanded nothing after the failed step.
C3_RaisedRunState ==
    \A t \in Threads :
        HasKind(t, "raise") =>
            /\ pc[t] \in {"except", "done"}
            /\ CountKind(t, "raise") = 1
            /\ CountKind(t, "complete") = 0
            /\ pc[t] = "except" => log[t][Len(log[t])].kind = "raise"
            /\ pc[t] = "done" =>
                  /\ RaisedTail(t)
                  /\ CountKind(t, "error") = 1
                  /\ CountKind(t, "emergency_stop") = 1

\* C3, in the steps: the step that ends a run that raised writes neutral to
\* the actuator, disarms it, records the error message in the status and
\* leaves the running flag false.
C3_RaisedRunStep ==
    \A t \in Threads :
        (HasKind(t, "raise") /\ pc[t] # "done" /\ pc'[t] = "done") =>
            /\ pwm_us' = HW_NEUTRAL_US
            /\ ~is_armed'
            /\ status'.error_message = "Test error"
            /\ ~status'.is_running

\* C3: a driver failure during taring or sampling takes the run to Error.
C3_DriverFaultGoesToError ==
    [] C3_RaisedRunState /\ [][C3_RaisedRunStep]_vars

\* C3 witness: a run has ended after a failure while sampling its second
\* setpoint.
C3_Witness ==
    \E t \in Threads :
        /\ pc[t] = "done"
        /\ CountKind(t, "error") = 1
        /\ CountKind(t, "point") = 1
        /\ CountKind(t, "set_pwm") = 2
        /\ status.error_message = "Test error"

\* C4 as stated: every run whose sweep was entered (its ramp to the start
\* setpoint was made) performs the ramp to neutral followed by disarm before
\* it ends, however the sweep ended.
C4_NeutralReturnAlways ==
    \A t \in Threads :
        (pc[t] = "done" /\ HasKind(t, "ramp_to")) => NeutralReturnDone(t)

\* C4 amended: a run whose sweep ends by normal completion or by a stop
\* request (stop or emergency stop) performs the ramp to neutral followed by
\* disarm before it ends and before any complete event; a run that ends by
\* an exception performs neither and takes the emergency path instead.
C4_NeutralReturnUnlessRaised ==
    \A t \in Threads :
        /\ (pc[t] \in {"finish", "done"} /\ ~HasKind(t, "raise")) =>
              /\ NeutralReturnDone(t)
              /\ CountKind(t, "ramp_to") = 2
              /\ CountKind(t, "disarm") = 1
              /\ \A i \in DOMAIN log[t] :
                    log[t][i].kind = "complete" => i = Len(log[t]) /\ log[t][i-1].kind = "disarm"
        /\ (pc[t] = "done" /\ HasKind(t, "raise")) =>
              /\ ~NeutralReturnDone(t)
              /\ CountKind(t, "disarm") = 0
              /\ CountKind(t, "emergency_stop") = 1

\* C4 witness: a run stopped in mid sweep has ended after its neutral return.
C4_Witness ==
    \E t \in Threads :
        /\ pc[t] = "done"
        /\ stop_requested
        /\ ~HasKind(t, "raise")
        /\ CountKind(t, "point") = 1
        /\ NeutralReturnDone(t)

\* C5: an uninterrupted run (since its start no stop, pause, resume,
\* emergency stop or driver failure, and no other execution path beside it)
\* emits exactly floor((max-min)/step)+1 points, at min, min+step, ... in
\* order, commands exactly those setpoints, and its result holds that same
\* sequence.
C5_UninterruptedSweep ==
    \A t \in Threads :
        (t = thread /\ pc[t] = "done" /\ ~interrupted) =>
            /\ ValuesOf(t, "point") = ExpectedSetpoints(config)
            /\ ValuesOf(t, "set_pwm") = ExpectedSetpoints(config)
            /\ CountKind(t, "point") = TotalSteps(config)
            /\ result # None
            /\ PointSetpoints(lists[result[1].test_points]) = ExpectedSetpoints(config)
            /\ \A i \in 1..(Len(ValuesOf(t, "point")) - 1) :
                  ValuesOf(t, "point")[i+1] = ValuesOf(t, "point")[i] + config.step_us

\* C5 witness: an uninterrupted run of the configuration whose max is not
\* reached by the stride has ended, after an earlier run that was stopped.
C5_Witness ==
    /\ thread = 2
    /\ pc[1] = "done"
    /\ CountKind(1, "complete") = 0
    /\ pc[2] = "done"
    /\ ~interrupted
    /\ (config.max_pwm_us - config.min_pwm_us) % config.step_us # 0
    /\ CountKind(2, "complete") = 1

\* C7: start() called while the running flag is set spawns no execution path
\* and leaves the stop request, the pause request, the collected points, the
\* stored result and the status unchanged.
C7_StartWhileRunningIsNoOp ==
    [][ (status.is_running /\ start) =>
            UNCHANGED << stop_requested, pause_requested, test_points, lists,
                         result, status, thread, nthreads, pc >> ]_vars

\* C7 witness: start() has just been rejected while a path was sweeping with
\* a stop request pending and points collected.
C7_Witness ==
    /\ lastCall = "start_rejected"
    /\ status.is_running
    /\ stop_requested
    /\ Len(lists[test_points]) > 0

\* C9: under a standing stop request an execution path commands at most one
\* further sweep setpoint (the one whose step had passed the stop check).
C9_AtMostOneSetpointAfterStop ==
    \A t \in Threads : sets_after_stop[t] <= 1

\* C9 witness: a stopped run has ended having commanded one setpoint after
\* the request and fewer setpoints than the sweep has.
C9_Witness ==
    \E t \in Threads :
        /\ pc[t] = "done"
        /\ sets_after_stop[t] = 1
        /\ stop_requested
        /\ CountKind(t, "set_pwm") < TotalSteps(config)

\* C8, progress: while a stop request stands, every active execution path
\* (arming, taring, ramping, sweeping, paused or returning to neutral)
\* eventually reaches its terminal state, unless an accepted start() has
\* withdrawn the request.
C8_StopLeadsToEnd ==
    \A t \in Threads :
        (stop_requested /\ Active(t)) ~> (pc[t] = "done" \/ ~stop_requested)

\* C8, the terminal step: the step that ends an execution path leaves the
\* running flag false.
C8_EndClearsRunning ==
    \A t \in Threads :
        (pc[t] # "done" /\ pc'[t] = "done") => ~status'.is_running

\* C8, the caller: a stop() that returned because its join succeeded did so
\* with the joined path in its terminal state.
C8_JoinedMeansEnded ==
    lastCall = "stop_joined" => (thread # NoThread /\ pc[thread] = "done")

\* C8: after stop() an active run reaches its terminal state with the
\* running flag false, and stop() returns only then or on its timeout.
C8_StopTerminatesRun ==
    /\ C8_StopLeadsToEnd
    /\ [][C8_EndClearsRunning]_vars
    /\ [] C8_JoinedMeansEnded

\* C8 witness: stop() has joined a run that was paused and never resumed.
C8_Witness ==
    /\ lastCall = "stop_joined"
    /\ pause_requested
    /\ pc[thread] = "done"
    /\ nthreads = 1
    /\ CountKind(thread, "point") = 1

----------------------------------------------------------------------------
(* Claims about the events of a run *)

\* C11: a complete or error event is the last event of its run: after it the
\* run emits no point and no progress event (it emits nothing at all, and
\* the path has ended).
C11_TerminalEventIsLast ==
    \A t \in Threads : \A i \in DOMAIN log[t] :
        log[t][i].kind \in {"complete", "error"} =>
            /\ \A j \in DOMAIN log[t] :
                  j > i => log[t][j].kind \notin {"point", "progress"}
            /\ i = Len(log[t])
            /\ pc[t] = "done"

\* C11 witness: a run that emitted points and progress has ended, its error
\* event last, beside a run whose complete event is last.
C11_Witness ==
    \E t, u \in Threads :
        /\ pc[t] = "done" /\ log[t][Len(log[t])].kind = "error"
        /\ CountKind(t, "progress") >= 1
        /\ pc[u] = "done" /\ log[u][Len(log[u])].kind = "complete"
        /\ CountKind(u, "progress") = TotalSteps(config)

\* C12: in one run the point events come in strictly increasing setpoint
\* order (so none is repeated or re-ordered); every point event follows the
\* command of its own setpoint and is followed at once by one progress
\* event, and every progress event follows a point event: one pair per
\* successful sweep step.
C12_PointProgressPairsInOrder ==
    \A t \in Threads :
        /\ \A i \in DOMAIN log[t] :
              /\ log[t][i].kind = "point" =>
                    /\ i > 1 /\ log[t][i-1].kind = "set_pwm"
                    /\ log[t][i-1].val[1] = log[t][i].val[1]
                    /\ i + 1 \in DOMAIN log[t] /\ log[t][i+1].kind = "progress"
              /\ log[t][i].kind = "progress" =>
                    i > 1 /\ log[t][i-1].kind = "point"
        /\ \A i, j \in DOMAIN ValuesOf(t, "point") :
              i < j => ValuesOf(t, "point")[i] < ValuesOf(t, "point")[j]
        /\ CountKind(t, "point") = CountKind(t, "progress")
        /\ CountKind(t, "point") \in
              {CountKind(t, "set_pwm") - 1, CountKind(t, "set_pwm")}

\* C12 witness: a run stopped by a failing sample has emitted two pairs of
\* point and progress and commanded a third setpoint.
C12_Witness ==
    \E t \in Threads :
        /\ pc[t] = "done"
        /\ CountKind(t, "point") = 2
        /\ CountKind(t, "progress") = 2
        /\ CountKind(t, "set_pwm") = 3

\* C13: a run that was paused and resumed but not halted (since its start no
\* stop, emergency stop or driver failure, and no other execution path
\* beside it) and that has ended has commanded, and appended to its points,
\* exactly the setpoints of an uninterrupted run over the same min, max and
\* step: none skipped, none repeated.
C13_PauseResumePreservesSweep ==
    \A t \in Threads :
        (t = thread /\ pc[t] = "done" /\ ~halted) =>
            /\ ValuesOf(t, "set_pwm") = ExpectedSetpoints(config)
            /\ ValuesOf(t, "point") = ExpectedSetpoints(config)
            /\ PointSetpoints(lists[test_points]) = ExpectedSetpoints(config)
            /\ CountKind(t, "complete") = 1

\* C13 witness: a run whose path waited in the pause loop, was resumed and
\* never halted, has ended.
C13_Witness ==
    /\ thread # NoThread
    /\ pc[thread] = "done"
    /\ ~halted
    /\ waited
    /\ interrupted
    /\ Len(lists[test_points]) = TotalSteps(config)

\* The positions of _run_test inside the sweep loop: the states Sweeping and
\* Paused.
SweepPcs == {"sweep_head", "pause_check", "pause_sleep", "stop_check", "set_pwm", "measure"}

\* C14: pause() and resume() called while no execution path is in the sweep
\* loop (idle, arming, taring, ramping, returning to neutral, ended) change
\* neither the status nor the pause request that a current or later sweep
\* will observe.
C14_PauseOutsideSweepNoEffect ==
    [][ ((pause \/ resume) /\ \A t \in Threads : pc[t] \notin SweepPcs) =>
            UNCHANGED << status, pause_requested >> ]_vars

\* C15: the progress values of a run never decrease: each progress event
\* carries a percentage (count * 100 / total) at least that of every
\* earlier progress event of the run.
C15_ProgressNonDecreasing ==
    \A t \in Threads : \A i, j \in DOMAIN log[t] :
        (i < j /\ log[t][i].kind = "progress" /\ log[t][j].kind = "progress") =>
            log[t][i].val[1] * log[t][j].val[2] <= log[t][j].val[1] * log[t][i].val[2]

\* C15 witness: a run has emitted three progress events, the last one at
\* 100 percent.
C15_Witness ==
    \E t \in Threads :
        /\ CountKind(t, "progress") = 3
        /\ \E i \in DOMAIN log[t] :
              /\ log[t][i].kind = "progress"
              /\ log[t][i].val[1] = 100 * log[t][i].val[2]

\* C16: no call made from the caller's context writes a field of the status.
C16_CallerNeverWritesStatus ==
    [][ (start \/ stop \/ stop_joined \/ stop_timeout \/ pause \/ resume \/ emergency_stop)
            => UNCHANGED status ]_vars

\* C17: a result is available only for a run that completed its sweep or was
\* stopped after collecting at least one point: with a single execution
\* path, a stored result holds at least one point.
C17_ResultOnlyWithPoints ==
    (nthreads = 1 /\ result # None) => Len(lists[result[1].test_points]) > 0

\* The phase an entry of a run's log belongs to: 1 arm, 2 tare, 3 ramp to
\* start, 4 sweep, 5 ramp to neutral, 6 disarm, 7 complete; 8 for the
\* entries of the failure path.
PhaseOf(t, i) ==
    LET k == log[t][i].kind IN
        IF k = "arm" THEN 1
        ELSE IF k = "tare" THEN 2
        ELSE IF k = "ramp_to"
             THEN (IF \E j \in 1..(i-1) : log[t][j].kind = "ramp_to" THEN 5 ELSE 3)
        ELSE IF k \in {"set_pwm", "point", "progress"} THEN 4
        ELSE IF k = "disarm" THEN 6
        ELSE IF k = "complete" THEN 7
        ELSE 8

\* C18: within a run the phases occur only in the order arm, tare, ramp to
\* start, sweep, ramp to neutral, disarm, complete; each phase but the sweep
\* is entered once; no setpoint is commanded before arming and taring have
\* finished and the ramp to start was made; the complete event follows the
\* ramp to neutral and the disarm.
C18_PhaseOrder ==
    \A t \in Threads :
        /\ \A i, j \in DOMAIN log[t] :
              i < j => /\ PhaseOf(t, i) <= PhaseOf(t, j)
                       /\ PhaseOf(t, i) = PhaseOf(t, j) => PhaseOf(t, i) \in {4, 8}
        /\ \A i \in DOMAIN log[t] :
              /\ PhaseOf(t, i) \in 2..3 =>
                    i > 1 /\ PhaseOf(t, i-1) = PhaseOf(t, i) - 1
              /\ PhaseOf(t, i) = 4 =>
                    /\ \A p \in 1..3 : \E j \in 1..(i-1) : PhaseOf(t, j) = p
                    /\ pc[t] \notin {"begin", "arm", "arm_wait", "tare", "ramp_start", "ramp_start_loop"}
              /\ PhaseOf(t, i) = 5 =>
                    /\ log[t][i].val[1] = config.neutral_pwm_us
                    /\ PhaseOf(t, i-1) \in {3, 4}
              /\ PhaseOf(t, i) \in 6..7 => PhaseOf(t, i-1) = PhaseOf(t, i) - 1
              /\ PhaseOf(t, i) = 3 => log[t][i].val[1] = config.min_pwm_us

\* C18 witness: a run has gone through every phase and emitted its complete
\* event.
C18_Witness ==
    \E t \in Threads :
        /\ \A p \in 1..7 : \E i \in DOMAIN log[t] : PhaseOf(t, i) = p
        /\ log[t][1].kind = "arm"
        /\ log[t][Len(log[t])].kind = "complete"

\* v lies in [min, max] and is min + k*step for an integer k >= 0.
OnSweepGrid(v) ==
    /\ config.min_pwm_us <= v
    /\ v <= config.max_pwm_us
    /\ (v - config.min_pwm_us) % config.step_us = 0

\* C19: every setpoint commanded or recorded in the sweep lies in [min, max]
\* and is min + k*step for an integer k >= 0; max is not added when the
\* stride does not reach it.
C19_SetpointsOnGrid ==
    /\ \A t \in Threads : \A i \in DOMAIN log[t] :
          log[t][i].kind \in {"set_pwm", "point"} => OnSweepGrid(log[t][i].val[1])
    /\ \A r \in DOMAIN lists : \A i \in DOMAIN lists[r] : OnSweepGrid(lists[r][i].pwm_us)

\* C19 witness: a run over a range whose max the stride does not reach has
\* completed, its last recorded setpoint below max.
C19_Witness ==
    \E t \in Threads :
        /\ pc[t] = "done"
        /\ CountKind(t, "complete") = 1
        /\ (config.max_pwm_us - config.min_pwm_us) % config.step_us # 0
        /\ LET points == ValuesOf(t, "point") IN
              IF points = << >> THEN FALSE
              ELSE /\ points[Len(points)] < config.max_pwm_us
                   /\ points[Len(points)] + config.step_us > config.max_pwm_us

----------------------------------------------------------------------------
(* The deadband analyzer: src/src/testing/deadband_analyzer.py             *)
(*                                                                         *)
(* Thrust is counted in thousandths of a kilogram, so the default          *)
(* threshold of 0.01 kg is 10.  A float that is a whole or half number of  *)
(* microseconds is the pair <<n, 2>> standing for n / 2.                   *)

\* Longest point sequence handed to the analyzer.
MaxPoints == 3

\* The setpoints, thrusts, neutrals, thresholds and resolutions explored.
AnalyzerPwms == {1493, 1500, 1502, 1507}
AnalyzerThrusts == {-20, -10, 0, 10, 20}
AnalyzerNeutrals == {1500, 1502}
AnalyzerThresholds == {10}
AnalyzerResolutions == {5, 10}

AnalyzerPoints == [pwm_us : AnalyzerPwms, thrust_kg : AnalyzerThrusts]

\* A call about to be made: the caller's list test_points (supplied keeps
\* what it held when the call was made), the other arguments, and nothing
\* returned yet.  provisional is the pair of locals (min_off, max_off) as
\* they stand before rounding, deadband the result of the first call of
\* analyze_deadband, repeated that of a second call on the same list, onset
\* the result of find_thrust_onset_points.
AnalyzerCall(points, neutral_pwm_us, thrust_threshold_kg, step_resolution_us) ==
    [test_points |-> points, supplied |-> points,
     neutral_pwm_us |-> neutral_pwm_us,
     thrust_threshold_kg |-> thrust_threshold_kg,
     step_resolution_us |-> step_resolution_us,
     provisional |-> None, deadband |-> None, repeated |-> None, onset |-> None]

\* A sweep of 1480..1520 in steps of 5 around neutral 1500 at resolution 5,
\* every thrust below the threshold of 0.01 kg.
ScenarioB ==
    AnalyzerCall([i \in 1..9 |-> [pwm_us |-> 1475 + 5 * i, thrust_kg |-> 0]],
                 1500, 10, 5)

\* The same sweep with 0.002 kg at 1495 and the threshold at 0.001 kg.
ScenarioC ==
    AnalyzerCall([i \in 1..9 |-> [pwm_us |-> 1475 + 5 * i,
                                  thrust_kg |-> IF 1475 + 5 * i = 1495 THEN 2 ELSE 0]],
                 1500, 1, 5)

AnalyzerInputs ==
    {AnalyzerCall(points, n, h, r) :
        points \in UNION {[1..k -> AnalyzerPoints] : k \in 0..MaxPoints},
        n \in AnalyzerNeutrals, h \in AnalyzerThresholds, r \in AnalyzerResolutions}
    \cup {ScenarioB, ScenarioC}

Abs(x) == IF x < 0 THEN -x ELSE x

\* float(n) and n / 2.0
Float(n) == << 2 * n, 2 >>
Halved(n) == << n, 2 >>

\* One step of a stable sort by pwm_us: p goes after every point whose
\* pwm_us is at most its own.
InsertByPwm(sorted_points, p) ==
    LET before == {i \in DOMAIN sorted_points : sorted_points[i].pwm_us <= p.pwm_us}
        n == Cardinality(before)
    IN SubSeq(sorted_points, 1, n) \o << p >> \o SubSeq(sorted_points, n + 1, Len(sorted_points))

\* sorted(test_points, key=lambda p: p.pwm_us)
RECURSIVE SortedByPwm(_)
SortedByPwm(points) ==
    IF points = << >> THEN << >>
    ELSE InsertByPwm(SortedByPwm(SubSeq(points, 1, Len(points) - 1)),
                     points[Len(points)])

\* Faulty variant: the downward scan passes over a point at or over the
\* threshold and goes on.
RECURSIVE ScanDown_passes_over(_, _, _, _, _)
ScanDown_passes_over(sorted_points, i, neutral_pwm_us, thrust_threshold_kg, min_off) ==
    IF i = 0 THEN min_off
    ELSE IF sorted_points[i].pwm_us > neutral_pwm_us
         THEN ScanDown_passes_over(sorted_points, i - 1, neutral_pwm_us,
                                   thrust_threshold_kg, min_off)
    ELSE IF Abs(sorted_points[i].thrust_kg) < thrust_threshold_kg
         THEN ScanDown_passes_over(sorted_points, i - 1, neutral_pwm_us,
                                   thrust_threshold_kg, sorted_points[i].pwm_us)
    ELSE ScanDown_passes_over(sorted_points, i - 1, neutral_pwm_us,
                              thrust_threshold_kg, min_off)

\* The downward scan: from index i of the sorted points to the first one,
\* with min_off as found so far.
RECURSIVE ScanDown(_, _, _, _, _)
ScanDown(sorted_points, i, neutral_pwm_us, thrust_threshold_kg, min_off) ==
    IF i = 0 THEN min_off
    ELSE IF sorted_points[i].pwm_us > neutral_pwm_us
         THEN ScanDown(sorted_points, i - 1, neutral_pwm_us, thrust_threshold_kg, min_off)
    ELSE IF Abs(sorted_points[i].thrust_kg) < thrust_threshold_kg
         THEN ScanDown(sorted_points, i - 1, neutral_pwm_us, thrust_threshold_kg,
                       sorted_points[i].pwm_us)
    ELSE min_off

\* Faulty variant: the upward scan passes over a point at or over the
\* threshold and goes on.
RECURSIVE ScanUp_passes_over(_, _, _, _, _)
ScanUp_passes_over(sorted_points, i, neutral_pwm_us, thrust_threshold_kg, max_off) ==
    IF i > Len(sorted_points) THEN max_off
    ELSE IF sorted_points[i].pwm_us < neutral_pwm_us
         THEN ScanUp_passes_over(sorted_points, i + 1, neutral_pwm_us,
                                 thrust_threshold_kg, max_off)
    ELSE IF Abs(sorted_points[i].thrust_kg) < thrust_threshold_kg
         THEN ScanUp_passes_over(sorted_points, i + 1, neutral_pwm_us,
                                 thrust_threshold_kg, sorted_points[i].pwm_us)
    ELSE ScanUp_passes_over(sorted_points, i + 1, neutral_pwm_us,
                            thrust_threshold_kg, max_off)

\* The upward scan: from index i of the sorted points to the last one, with
\* max_off as found so far.
RECURSIVE ScanUp(_, _, _, _, _)
ScanUp(sorted_points, i, neutral_pwm_us, thrust_threshold_kg, max_off) ==
    IF i > Len(sorted_points) THEN max_off
    ELSE IF sorted_points[i].pwm_us < neutral_pwm_us
         THEN ScanUp(sorted_points, i + 1, neutral_pwm_us, thrust_threshold_kg, max_off)
    ELSE IF Abs(sorted_points[i].thrust_kg) < thrust_threshold_kg
         THEN ScanUp(sorted_points, i + 1, neutral_pwm_us, thrust_threshold_kg,
                     sorted_points[i].pwm_us)
    ELSE max_off

\* Faulty variant: rounds to the next multiple even from a multiple.
round_to_resolution_next(value, resolution, round_down) ==
    IF round_down
    THEN (value \div resolution) * resolution
    ELSE ((value + resolution) \div resolution) * resolution

\* Faulty variant: rounds down whatever round_down says.
round_to_resolution_floor(value, resolution, round_down) ==
    (value \div resolution) * resolution

\* round_to_resolution
round_to_resolution(value, resolution, round_down) ==
    IF round_down
    THEN (value \div resolution) * resolution
    ELSE ((value + resolution - 1) \div resolution) * resolution

DeadbandResult(min_off, max_off, midpoint, range_us) ==
    [min_off_pwm_us |-> min_off, max_off_pwm_us |-> max_off,
     midpoint_pwm_us |-> midpoint, range_us |-> range_us]

\* min_off as the downward scan leaves it (lines 39-53)
scan_min_off(points, neutral_pwm_us, thrust_threshold_kg) ==
    LET sorted_points == SortedByPwm(points)
    IN ScanDown(sorted_points, Len(sorted_points), neutral_pwm_us,
                thrust_threshold_kg, neutral_pwm_us)

\* max_off as the upward scan leaves it (lines 55-62)
scan_max_off(points, neutral_pwm_us, thrust_threshold_kg) ==
    LET sorted_points == SortedByPwm(points)
    IN ScanUp(sorted_points, 1, neutral_pwm_us, thrust_threshold_kg, neutral_pwm_us)

\* Faulty variant: the empty list goes through the scans and the rounding too.
analyze_deadband_rounds_empty(points, neutral_pwm_us, thrust_threshold_kg, step_resolution_us) ==
    LET min_off == round_to_resolution(
                       scan_min_off(points, neutral_pwm_us, thrust_threshold_kg),
                       step_resolution_us, TRUE)
        max_off == round_to_resolution(
                       scan_max_off(points, neutral_pwm_us, thrust_threshold_kg),
                       step_resolution_us, FALSE)
    IN DeadbandResult(min_off, max_off, Halved(min_off + max_off), max_off - min_off)

\* Faulty variant: a scan that finds nothing leaves the bound at the lowest
\* setpoint measured.
analyze_deadband_defaults_low(points, neutral_pwm_us, thrust_threshold_kg, step_resolution_us) ==
    IF points = << >>
    THEN DeadbandResult(neutral_pwm_us, neutral_pwm_us, Float(neutral_pwm_us), 0)
    ELSE
        LET sorted_points == SortedByPwm(points)
            lowest == sorted_points[1].pwm_us
            scanned_min == ScanDown(sorted_points, Len(sorted_points), neutral_pwm_us,
                                    thrust_threshold_kg, lowest)
            scanned_max == ScanUp(sorted_points, 1, neutral_pwm_us,
                                  thrust_threshold_kg, lowest)
            min_off == round_to_resolution(scanned_min, step_resolution_us, TRUE)
            max_off == round_to_resolution(scanned_max, step_resolution_us, FALSE)
        IN DeadbandResult(min_off, max_off, Halved(min_off + max_off), max_off - min_off)

\* Faulty variant: the scans run over the list in the order supplied.
analyze_deadband_unsorted(points, neutral_pwm_us, thrust_threshold_kg, step_resolution_us) ==
    IF points = << >>
    THEN DeadbandResult(neutral_pwm_us, neutral_pwm_us, Float(neutral_pwm_us), 0)
    ELSE
        LET scanned_min == ScanDown(points, Len(points), neutral_pwm_us,
                                    thrust_threshold_kg, neutral_pwm_us)
            scanned_max == ScanUp(points, 1, neutral_pwm_us,
                                  thrust_threshold_kg, neutral_pwm_us)
            min_off == round_to_resolution(scanned_min, step_resolution_us, TRUE)
            max_off == round_to_resolution(scanned_max, step_resolution_us, FALSE)
        IN DeadbandResult(min_off, max_off, Halved(min_off + max_off), max_off - min_off)

\* analyze_deadband
analyze_deadband(points, neutral_pwm_us, thrust_threshold_kg, step_resolution_us) ==
    IF points = << >>
    THEN DeadbandResult(neutral_pwm_us, neutral_pwm_us, Float(neutral_pwm_us), 0)
    ELSE
        LET scanned_min == scan_min_off(points, neutral_pwm_us, thrust_threshold_kg)
            scanned_max == scan_max_off(points, neutral_pwm_us, thrust_threshold_kg)
            min_off == round_to_resolution(scanned_min, step_resolution_us, TRUE)
            max_off == round_to_resolution(scanned_max, step_resolution_us, FALSE)
        IN DeadbandResult(min_off, max_off, Halved(min_off + max_off), max_off - min_off)

\* The forward scan of find_thrust_onset_points: from index i of the sorted
\* points to the last one.
RECURSIVE ForwardOnset(_, _, _, _)
ForwardOnset(sorted_points, i, neutral_pwm_us, thrust_threshold_kg) ==
    IF i > Len(sorted_points) THEN None
    ELSE IF /\ sorted_points[i].pwm_us > neutral_pwm_us
            /\ sorted_points[i].thrust_kg > thrust_threshold_kg
         THEN Some(sorted_points[i].pwm_us)
    ELSE ForwardOnset(sorted_points, i + 1, neutral_pwm_us, thrust_threshold_kg)

\* The reverse scan of find_thrust_onset_points: from index i of the sorted
\* points to the first one.
RECURSIVE ReverseOnset(_, _, _, _)
ReverseOnset(sorted_points, i, neutral_pwm_us, thrust_threshold_kg) ==
    IF i = 0 THEN None
    ELSE IF /\ sorted_points[i].pwm_us < neutral_pwm_us
            /\ sorted_points[i].thrust_kg < -thrust_threshold_kg
         THEN Some(sorted_points[i].pwm_us)
    ELSE ReverseOnset(sorted_points, i - 1, neutral_pwm_us, thrust_threshold_kg)

\* Python's  onset or neutral_pwm_us : None and 0 are both false.
OrNeutral(onset, neutral_pwm_us) ==
    IF onset = None \/ onset[1] = 0 THEN neutral_pwm_us ELSE onset[1]

\* Faulty variant: the forward scan starts at the high end.
find_thrust_onset_points_high_end(points, neutral_pwm_us, thrust_threshold_kg) ==
    LET sorted_points == SortedByPwm(points)
        descending == [i \in DOMAIN sorted_points |->
                          sorted_points[Len(sorted_points) + 1 - i]]
    IN << OrNeutral(ForwardOnset(descending, 1, neutral_pwm_us,
                                 thrust_threshold_kg), neutral_pwm_us),
          OrNeutral(ReverseOnset(sorted_points, Len(sorted_points), neutral_pwm_us,
                                 thrust_threshold_kg), neutral_pwm_us) >>

\* Faulty variant: the reverse scan starts at the low end.
find_thrust_onset_points_low_end(points, neutral_pwm_us, thrust_threshold_kg) ==
    LET sorted_points == SortedByPwm(points)
        descending == [i \in DOMAIN sorted_points |->
                          sorted_points[Len(sorted_points) + 1 - i]]
    IN << OrNeutral(ForwardOnset(sorted_points, 1, neutral_pwm_us,
                                 thrust_threshold_kg), neutral_pwm_us),
          OrNeutral(ReverseOnset(descending, Len(descending), neutral_pwm_us,
                                 thrust_threshold_kg), neutral_pwm_us) >>

\* find_thrust_onset_points: the pair (forward onset, reverse onset)
find_thrust_onset_points(points, neutral_pwm_us, thrust_threshold_kg) ==
    LET sorted_points == SortedByPwm(points)
    IN << OrNeutral(ForwardOnset(sorted_points, 1, neutral_pwm_us,
                                 thrust_threshold_kg), neutral_pwm_us),
          OrNeutral(ReverseOnset(sorted_points, Len(sorted_points), neutral_pwm_us,
                                 thrust_threshold_kg), neutral_pwm_us) >>

\* Every variable of the runner and the actuator.
machineVars ==
    << config, pwm_us, is_armed, status, stop_requested, pause_requested,
       test_points, lists, result, thread, nthreads, pc, current_pwm,
       step_count, total_steps, ramp_current, callerPc, log,
       sets_after_stop, lastCall, interrupted, halted, waited, stop_seen >>

\* The runner and the actuator as their constructors leave them, no test
\* started.
Constructed ==
    /\ config = CHOOSE c \in Configs : c.neutral_pwm_us = HW_NEUTRAL_US
    /\ pwm_us = HW_NEUTRAL_US
    /\ is_armed = FALSE
    /\ status = [is_running |-> FALSE, is_paused |-> FALSE,
                 current_pwm_us |-> HW_NEUTRAL_US,
                 progress_percent |-> <<0, 1>>,
                 current_point |-> None, error_message |-> "None"]
    /\ stop_requested = FALSE
    /\ pause_requested = FALSE
    /\ test_points = 0
    /\ lists = [i \in 0..MaxThreads |-> << >>]
    /\ result = None
    /\ thread = NoThread
    /\ nthreads = 0
    /\ pc = [t \in Threads |-> "none"]
    /\ current_pwm = [t \in Threads |-> 0]
    /\ step_count = [t \in Threads |-> 0]
    /\ total_steps = [t \in Threads |-> 0]
    /\ ramp_current = [t \in Threads |-> 0]
    /\ callerPc = "idle"
    /\ log = [t \in Threads |-> << >>]
    /\ sets_after_stop = [t \in Threads |-> 0]
    /\ lastCall = "other"
    /\ interrupted = FALSE
    /\ halted = FALSE
    /\ waited = FALSE
    /\ stop_seen = [t \in Threads |-> FALSE]

\* An idle runner, and a call of the analyzer about to be made on some
\* arguments.
InitAnalyzer ==
    /\ Constructed
    /\ analysis \in AnalyzerInputs
    /\ sampling = NoSampling
    /\ pwm_call = NoCall

\* The call analyze_deadband(test_points, neutral, threshold, resolution)
\* returns, for the first or the second time.  sorted() works on a copy, so
\* the caller's list is as it was.
analyze ==
    /\ analysis # NoAnalysis
    /\ analysis.repeated = None
    /\ LET returned == analyze_deadband(analysis.test_points, analysis.neutral_pwm_us,
                                        analysis.thrust_threshold_kg,
                                        analysis.step_resolution_us)
           locals == IF analysis.test_points = << >> THEN None
                     ELSE Some(<< scan_min_off(analysis.test_points,
                                               analysis.neutral_pwm_us,
                                               analysis.thrust_threshold_kg),
                                  scan_max_off(analysis.test_points,
                                               analysis.neutral_pwm_us,
                                               analysis.thrust_threshold_kg) >>)
       IN analysis' =
             IF analysis.deadband = None
             THEN [analysis EXCEPT !.deadband = Some(returned), !.provisional = locals,
                                   !.test_points = analysis.test_points]
             ELSE [analysis EXCEPT !.repeated = Some(returned),
                                   !.test_points = analysis.test_points]
    /\ UNCHANGED << machineVars, sampling, pwm_call >>

\* The call find_thrust_onset_points(test_points, neutral, threshold) returns.
find_onset ==
    /\ analysis # NoAnalysis
    /\ analysis.onset = None
    /\ analysis' = [analysis EXCEPT !.onset =
                       Some(find_thrust_onset_points(analysis.test_points,
                                                     analysis.neutral_pwm_us,
                                                     analysis.thrust_threshold_kg))]
    /\ UNCHANGED << machineVars, sampling, pwm_call >>

NextAnalyzer ==
    \/ analyze
    \/ find_onset

SpecAnalyzer == InitAnalyzer /\ [][NextAnalyzer]_vars

\* The analyzer has returned.
Analyzed == analysis # NoAnalysis /\ analysis.deadband # None

C21_EmptyGivesNeutral ==
    (Analyzed /\ analysis.supplied = << >>) =>
        LET d == analysis.deadband[1] IN
            /\ d.min_off_pwm_us = analysis.neutral_pwm_us
            /\ d.max_off_pwm_us = analysis.neutral_pwm_us
            /\ d.midpoint_pwm_us[1] = analysis.neutral_pwm_us * d.midpoint_pwm_us[2]
            /\ d.range_us = 0

\* C21 witness: the analyzer has returned on the empty sequence with a
\* neutral that is no multiple of the resolution.
C21_Witness ==
    /\ Analyzed
    /\ analysis.supplied = << >>
    /\ analysis.neutral_pwm_us % analysis.step_resolution_us # 0

\* The least and the greatest member of a nonempty set of integers.
SetMin(S) == CHOOSE x \in S : \A y \in S : x <= y
SetMax(S) == CHOOSE x \in S : \A y \in S : x >= y

\* Point j is met before point i by a scan in descending setpoint order:
\* of two points at one setpoint the one supplied later is met first.
MetBeforeDescending(points, j, i) ==
    \/ points[j].pwm_us > points[i].pwm_us
    \/ points[j].pwm_us = points[i].pwm_us /\ j > i

\* Point j is met before point i by a scan in ascending setpoint order: of
\* two points at one setpoint the one supplied first is met first.
MetBeforeAscending(points, j, i) ==
    \/ points[j].pwm_us < points[i].pwm_us
    \/ points[j].pwm_us = points[i].pwm_us /\ j < i

\* The points at or below neutral that lie in the unbroken sub-threshold run
\* of the descending scan: the point itself and every point at or below
\* neutral met before it are under the threshold.
LowerRun(points, neutral_pwm_us, thrust_threshold_kg) ==
    {i \in DOMAIN points :
        /\ points[i].pwm_us <= neutral_pwm_us
        /\ \A j \in DOMAIN points :
              (/\ points[j].pwm_us <= neutral_pwm_us
               /\ (j = i \/ MetBeforeDescending(points, j, i)))
              => Abs(points[j].thrust_kg) < thrust_threshold_kg}

\* The points at or above neutral that lie in the unbroken sub-threshold run
\* of the ascending scan.
UpperRun(points, neutral_pwm_us, thrust_threshold_kg) ==
    {i \in DOMAIN points :
        /\ points[i].pwm_us >= neutral_pwm_us
        /\ \A j \in DOMAIN points :
              (/\ points[j].pwm_us >= neutral_pwm_us
               /\ (j = i \/ MetBeforeAscending(points, j, i)))
              => Abs(points[j].thrust_kg) < thrust_threshold_kg}

\* The lower and the upper run of the call in hand.
CallLowerRun ==
    LowerRun(analysis.supplied, analysis.neutral_pwm_us, analysis.thrust_threshold_kg)
CallUpperRun ==
    UpperRun(analysis.supplied, analysis.neutral_pwm_us, analysis.thrust_threshold_kg)

\* C22: the provisional lower bound is the lowest setpoint of the unbroken
\* run of points with |thrust| < threshold met when the points at or below
\* neutral are scanned in descending setpoint order; the scan stops at the
\* first point at or over the threshold, so a sub-threshold point beyond it
\* never extends the bound.  With 0.002 kg at 1495 over a threshold of
\* 0.001 kg the lower bound stays at 1500.
C22_LowerBoundIsEndOfRun ==
    /\ (Analyzed /\ analysis.provisional # None /\ CallLowerRun # {}) =>
          analysis.provisional[1][1] =
              SetMin({analysis.supplied[i].pwm_us : i \in CallLowerRun})
    /\ (Analyzed /\ analysis.supplied = ScenarioC.supplied
                 /\ analysis.thrust_threshold_kg = ScenarioC.thrust_threshold_kg) =>
          /\ analysis.provisional[1][1] = 1500
          /\ analysis.deadband[1].min_off_pwm_us = 1500

\* C22 witness: the analyzer has returned on a sequence with a
\* sub-threshold point below a point at or over the threshold, both at or
\* below neutral, and the provisional lower bound lies above both.
C22_Witness ==
    /\ Analyzed
    /\ analysis.provisional # None
    /\ CallLowerRun # {}
    /\ \E i, j \in DOMAIN analysis.supplied :
          /\ analysis.supplied[i].pwm_us < analysis.supplied[j].pwm_us
          /\ analysis.supplied[j].pwm_us < analysis.provisional[1][1]
          /\ Abs(analysis.supplied[i].thrust_kg) < analysis.thrust_threshold_kg
          /\ Abs(analysis.supplied[j].thrust_kg) >= analysis.thrust_threshold_kg

\* C23: the provisional upper bound is the highest setpoint of the unbroken
\* run of points with |thrust| < threshold met when the points at or above
\* neutral are scanned in ascending order, the scan stopping at the first
\* point at or over the threshold; with every point under the threshold the
\* deadband spans the measured range: 1480..1520 in steps of 5 around
\* neutral 1500 at resolution 5 give lower 1480, upper 1520, midpoint
\* 1500.0 and range 40.
C23_UpperBoundIsEndOfRun ==
    /\ (Analyzed /\ analysis.provisional # None /\ CallUpperRun # {}) =>
          analysis.provisional[1][2] =
              SetMax({analysis.supplied[i].pwm_us : i \in CallUpperRun})
    /\ (Analyzed /\ analysis.supplied = ScenarioB.supplied
                 /\ analysis.thrust_threshold_kg = ScenarioB.thrust_threshold_kg) =>
          analysis.deadband[1] = DeadbandResult(1480, 1520, Float(1500), 40)

\* C23 witness: the analyzer has returned on the sweep 1480..1520 with every
\* thrust under the threshold.
C23_Witness ==
    /\ Analyzed
    /\ analysis.supplied = ScenarioB.supplied
    /\ analysis.thrust_threshold_kg = ScenarioB.thrust_threshold_kg
    /\ CallUpperRun = DOMAIN analysis.supplied \ {i \in DOMAIN analysis.supplied :
                                                    analysis.supplied[i].pwm_us < 1500}

\* The bounds before rounding: the locals of the scans, and the default,
\* neutral, where no scan has run.
ProvisionalBounds ==
    IF analysis.provisional = None
    THEN << analysis.neutral_pwm_us, analysis.neutral_pwm_us >>
    ELSE analysis.provisional[1]

\* lower is the greatest multiple of the resolution at or below the
\* provisional lower bound, upper the least multiple at or above the
\* provisional upper bound.
RoundedOutward(d) ==
    LET q == analysis.step_resolution_us
        lo == ProvisionalBounds[1]
        hi == ProvisionalBounds[2]
    IN /\ d.min_off_pwm_us % q = 0
       /\ d.min_off_pwm_us <= lo
       /\ lo < d.min_off_pwm_us + q
       /\ d.max_off_pwm_us % q = 0
       /\ d.max_off_pwm_us >= hi
       /\ hi > d.max_off_pwm_us - q
       /\ (lo % q = 0 => d.min_off_pwm_us = lo)
       /\ (hi % q = 0 => d.max_off_pwm_us = hi)

C25_DefaultIsNeutral ==
    Analyzed =>
        /\ CallLowerRun = {} =>
              analysis.deadband[1].min_off_pwm_us = analysis.neutral_pwm_us
        /\ CallUpperRun = {} =>
              analysis.deadband[1].max_off_pwm_us = analysis.neutral_pwm_us

\* C25 amended: when no point qualifies for a scan its provisional bound is
\* neutral; the bound returned is then neutral itself on the empty sequence
\* and otherwise neutral rounded to the resolution grid, down for the lower
\* bound and up for the upper, which is neutral when neutral is on the grid.
C25_DefaultIsNeutralRounded ==
    Analyzed =>
        LET d == analysis.deadband[1]
            n == analysis.neutral_pwm_us
            q == analysis.step_resolution_us
        IN /\ CallLowerRun = {} =>
                 /\ ProvisionalBounds[1] = n
                 /\ IF analysis.supplied = << >> THEN d.min_off_pwm_us = n
                    ELSE /\ d.min_off_pwm_us % q = 0
                         /\ d.min_off_pwm_us <= n
                         /\ n < d.min_off_pwm_us + q
           /\ CallUpperRun = {} =>
                 /\ ProvisionalBounds[2] = n
                 /\ IF analysis.supplied = << >> THEN d.max_off_pwm_us = n
                    ELSE /\ d.max_off_pwm_us % q = 0
                         /\ d.max_off_pwm_us >= n
                         /\ n > d.max_off_pwm_us - q

\* C25 witness: the analyzer has returned on a nonempty sequence none of
\* whose points qualifies for either scan, with neutral off the grid.
C25_Witness ==
    /\ Analyzed
    /\ analysis.supplied # << >>
    /\ CallLowerRun = {}
    /\ CallUpperRun = {}
    /\ analysis.neutral_pwm_us % analysis.step_resolution_us # 0
    /\ analysis.deadband[1].min_off_pwm_us < analysis.neutral_pwm_us
    /\ analysis.deadband[1].max_off_pwm_us > analysis.neutral_pwm_us

\* points with the entries at i and j exchanged.
Exchanged(points, i, j) ==
    [k \in DOMAIN points |-> IF k = i THEN points[j]
                             ELSE IF k = j THEN points[i] ELSE points[k]]

DistinctSetpoints(points) ==
    \A i, j \in DOMAIN points : i # j => points[i].pwm_us # points[j].pwm_us

\* C26: a second run of analyze_deadband on the same sequence and
\* parameters returns what the first returned, the caller's sequence is
\* neither reordered nor modified, and with distinct setpoints the result
\* is the same in whatever order the points are supplied (exchanging any
\* two points of the sequence leaves it unchanged).
C26_DeterministicAndOrderFree ==
    Analyzed =>
        /\ analysis.test_points = analysis.supplied
        /\ analysis.repeated # None => analysis.repeated = analysis.deadband
        /\ DistinctSetpoints(analysis.supplied) =>
              \A i, j \in DOMAIN analysis.supplied :
                  analyze_deadband(Exchanged(analysis.supplied, i, j),
                                   analysis.neutral_pwm_us,
                                   analysis.thrust_threshold_kg,
                                   analysis.step_resolution_us)
                      = analysis.deadband[1]

\* C26 witness: the analyzer has returned twice on three points with
\* distinct setpoints supplied out of order, with a deadband wider than a
\* point.
C26_Witness ==
    /\ Analyzed
    /\ analysis.repeated # None
    /\ Len(analysis.supplied) = 3
    /\ DistinctSetpoints(analysis.supplied)
    /\ analysis.supplied[1].pwm_us > analysis.supplied[2].pwm_us
    /\ analysis.supplied[3].pwm_us > analysis.supplied[1].pwm_us
    /\ analysis.deadband[1].range_us > analysis.step_resolution_us

\* find_thrust_onset_points has returned.
OnsetFound == analysis # NoAnalysis /\ analysis.onset # None

\* The setpoints above neutral with thrust over +threshold, and those below
\* neutral with thrust under -threshold.
ForwardCandidates ==
    {analysis.supplied[i].pwm_us : i \in
        {k \in DOMAIN analysis.supplied :
            /\ analysis.supplied[k].pwm_us > analysis.neutral_pwm_us
            /\ analysis.supplied[k].thrust_kg > analysis.thrust_threshold_kg}}
ReverseCandidates ==
    {analysis.supplied[i].pwm_us : i \in
        {k \in DOMAIN analysis.supplied :
            /\ analysis.supplied[k].pwm_us < analysis.neutral_pwm_us
            /\ analysis.supplied[k].thrust_kg < -analysis.thrust_threshold_kg}}

\* C27: the forward onset returned by find_thrust_onset_points is the
\* lowest setpoint strictly above neutral whose thrust exceeds +threshold,
\* and neutral when there is none.
C27_ForwardOnsetIsLowestAbove ==
    OnsetFound =>
        analysis.onset[1][1] =
            IF ForwardCandidates = {} THEN analysis.neutral_pwm_us
            ELSE SetMin(ForwardCandidates)

\* C27 witness: find_thrust_onset_points has returned on a sequence with
\* two setpoints above neutral over the threshold, the higher supplied
\* first.
C27_Witness ==
    /\ OnsetFound
    /\ \E i, j \in DOMAIN analysis.supplied :
          /\ i < j
          /\ analysis.supplied[i].pwm_us > analysis.supplied[j].pwm_us
          /\ analysis.supplied[i].pwm_us \in ForwardCandidates
          /\ analysis.supplied[j].pwm_us \in ForwardCandidates
    /\ analysis.onset[1][1] # analysis.neutral_pwm_us

\* C28: the reverse onset returned by find_thrust_onset_points is the
\* setpoint nearest to neutral among those strictly below neutral whose
\* thrust is below -threshold, and neutral when there is none; the call
\* leaves what analyze_deadband has returned as it is, and analyze_deadband
\* leaves the onsets as they are.
C28_ReverseOnsetIsNearestBelow ==
    /\ [](OnsetFound =>
            analysis.onset[1][2] =
                IF ReverseCandidates = {} THEN analysis.neutral_pwm_us
                ELSE SetMax(ReverseCandidates))
    /\ [][ /\ analysis.onset' # analysis.onset =>
                /\ analysis.deadband' = analysis.deadband
                /\ analysis.repeated' = analysis.repeated
                /\ analysis.provisional' = analysis.provisional
           /\ analysis.deadband' # analysis.deadband =>
                analysis.onset' = analysis.onset ]_vars

\* C28 witness: find_thrust_onset_points has returned, after
\* analyze_deadband, on a sequence with two setpoints below neutral under
\* -threshold, and the reverse onset is the higher of the two.
C28_Witness ==
    /\ OnsetFound
    /\ Analyzed
    /\ \E x, y \in ReverseCandidates :
          /\ x < y
          /\ analysis.onset[1][2] = y

----------------------------------------------------------------------------
(* The sampler: TestRunner._take_measurement                               *)
(*                                                                         *)
(* Readings are whole numbers of tenths of a volt, tenths of an ampere and *)
(* thousandths of a kilogram.  An average is the pair <<sum, count>>       *)
(* standing for sum / count, a product of two averages the pair of the     *)
(* products.                                                               *)

\* Largest samples_per_point explored; 5 is the constructor's default.
MaxSamples == 5

\* The setpoints passed and the readings the sensors may give.
SamplerSetpoints == {1475, 1500}
VoltageReadings == {119, 120}
CurrentReadings == {0, 30}
ThrustReadings == {-15, 40}

\* A call about to be made: its argument, self.samples_per_point, the three
\* local lists, and nothing returned yet.  power_reads and force_reads count
\* the calls of power.read_all and load_cell.read_kg that have returned.
SamplerInputs ==
    [pwm_us : SamplerSetpoints, samples_per_point : 1..MaxSamples,
     voltages : {<< >>}, currents : {<< >>}, thrusts : {<< >>},
     power_reads : {0}, force_reads : {0}, point : {None}, raised : {FALSE}]

\* sum(values)
RECURSIVE Sum(_)
Sum(values) ==
    IF values = << >> THEN 0
    ELSE Sum(SubSeq(values, 1, Len(values) - 1)) + values[Len(values)]

\* sum(values) / len(values)
Average(values) == << Sum(values), Len(values) >>

\* avg_voltage * avg_current
Times(x, y) == << x[1] * y[1], x[2] * y[2] >>

\* TestPoint(pwm_us=..., current_a=..., voltage_v=..., power_w=..., thrust_kg=...)
MeasuredPoint(p, current_a, voltage_v, power_w, thrust_kg) ==
    [pwm_us |-> p, current_a |-> current_a, voltage_v |-> voltage_v,
     power_w |-> power_w, thrust_kg |-> thrust_kg]

InitSampler ==
    /\ Constructed
    /\ analysis = NoAnalysis
    /\ sampling \in SamplerInputs
    /\ pwm_call = NoCall

\* _take_measurement is in its loop or about to return.
Sampling == sampling # NoSampling /\ sampling.point = None /\ ~sampling.raised

\* One iteration of the loop: power.read_all(), load_cell.read_kg(samples=1)
\* and the three appends.
sample_read ==
    /\ Sampling
    /\ Len(sampling.voltages) < sampling.samples_per_point
    /\ \E v \in VoltageReadings, i \in CurrentReadings, t \in ThrustReadings :
          sampling' = [sampling EXCEPT !.voltages = Append(@, v),
                                       !.currents = Append(@, i),
                                       !.thrusts = Append(@, t),
                                       !.power_reads = @ + 1,
                                       !.force_reads = @ + 1]
    /\ UNCHANGED << machineVars, analysis, pwm_call >>

\* One iteration of the loop in which the load cell does not answer:
\* power.read_all() returns, load_cell.read_kg raises TimeoutError, and the
\* exception leaves _take_measurement.
sample_read_raises ==
    /\ Sampling
    /\ Len(sampling.voltages) < sampling.samples_per_point
    /\ sampling' = [sampling EXCEPT !.power_reads = @ + 1, !.raised = TRUE]
    /\ UNCHANGED << machineVars, analysis, pwm_call >>

\* Faulty variant: the power is the average of the per-sample products.
sample_return_mean_of_products ==
    /\ Sampling
    /\ Len(sampling.voltages) = sampling.samples_per_point
    /\ LET avg_voltage == Average(sampling.voltages)
           avg_current == Average(sampling.currents)
           avg_thrust == Average(sampling.thrusts)
           avg_power == Average([k \in DOMAIN sampling.voltages |->
                                    sampling.voltages[k] * sampling.currents[k]])
       IN sampling' = [sampling EXCEPT !.point =
                         Some(MeasuredPoint(sampling.pwm_us, avg_current, avg_voltage,
                                            avg_power, avg_thrust))]
    /\ UNCHANGED << machineVars, analysis, pwm_call >>

\* The loop is over: the averages are taken and the TestPoint is returned.
sample_return ==
    /\ Sampling
    /\ Len(sampling.voltages) = sampling.samples_per_point
    /\ LET avg_voltage == Average(sampling.voltages)
           avg_current == Average(sampling.currents)
           avg_thrust == Average(sampling.thrusts)
           avg_power == Times(avg_voltage, avg_current)
       IN sampling' = [sampling EXCEPT !.point =
                         Some(MeasuredPoint(sampling.pwm_us, avg_current, avg_voltage,
                                            avg_power, avg_thrust))]
    /\ UNCHANGED << machineVars, analysis, pwm_call >>

NextSampler ==
    \/ sample_read
    \/ sample_read_raises
    \/ sample_return

SpecSampler == InitSampler /\ [][NextSampler]_vars

\* _take_measurement has returned its TestPoint.
Sampled == sampling # NoSampling /\ sampling.point # None

\* The pair x stands for the fraction num / den.
IsFraction(x, num, den) == x[1] * den = num * x[2]

\* C29: a call of _take_measurement with setpoint p and n samples per point
\* that returns has made exactly n power reads and n force reads and
\* returns one point whose setpoint is p, whose voltage, current and thrust
\* are the arithmetic means of the n readings and whose power is the mean
\* voltage times the mean current; no step of the call changes a variable
\* of the runner or the actuator.
C29_SampleAveragesReads ==
    /\ [](Sampled =>
            LET n == sampling.samples_per_point
                point == sampling.point[1]
            IN /\ sampling.power_reads = n
               /\ sampling.force_reads = n
               /\ Len(sampling.voltages) = n
               /\ point.pwm_us = sampling.pwm_us
               /\ IsFraction(point.voltage_v, Sum(sampling.voltages), n)
               /\ IsFraction(point.current_a, Sum(sampling.currents), n)
               /\ IsFraction(point.thrust_kg, Sum(sampling.thrusts), n)
               /\ IsFraction(point.power_w,
                             Sum(sampling.voltages) * Sum(sampling.currents), n * n))
    /\ [][sampling' # sampling => UNCHANGED machineVars]_vars

\* C29 witness: a call with the default 5 samples per point has returned on
\* readings whose mean of products is not the product of the means.
C29_Witness ==
    /\ Sampled
    /\ sampling.samples_per_point = 5
    /\ sampling.power_reads = 5
    /\ Sum([k \in DOMAIN sampling.voltages |->
               sampling.voltages[k] * sampling.currents[k]]) * 5
          # Sum(sampling.voltages) * Sum(sampling.currents)

----------------------------------------------------------------------------
(* The actuator called directly: PWMController's methods with any          *)
(* arguments, one call after another                                       *)

\* The pulse widths and ramp steps passed.
PwmArguments == {-100, 0, 999, 1000, 1240, 1500, 2000, 2001, 3000}
RampSteps == {0, 25, 300}

InitPwm ==
    /\ Constructed
    /\ analysis = NoAnalysis
    /\ sampling = NoSampling
    /\ pwm_call = NoCall

\* pwm.set_pwm_us(pulse_us)
pwm_set_pwm_us(pulse_us) ==
    /\ pwm_call = NoCall
    /\ pwm_us' = set_pwm_us(pulse_us)
    /\ UNCHANGED << config, is_armed, runnerVars, nthreads, pc, localVars, callerPc, log,
                    sets_after_stop, lastCall, interrupted, halted, waited,
                    analysis, sampling, pwm_call, stop_seen >>

\* pwm.arm(neutral_pwm_us)
pwm_arm(neutral_pwm_us) ==
    /\ pwm_call = NoCall
    /\ pwm_us' = set_pwm_us(neutral_pwm_us)
    /\ is_armed' = TRUE
    /\ UNCHANGED << config, runnerVars, nthreads, pc, localVars, callerPc, log,
                    sets_after_stop, lastCall, interrupted, halted, waited,
                    analysis, sampling, pwm_call, stop_seen >>

\* pwm.disarm(neutral_pwm_us)
pwm_disarm(neutral_pwm_us) ==
    /\ pwm_call = NoCall
    /\ pwm_us' = set_pwm_us(neutral_pwm_us)
    /\ is_armed' = FALSE
    /\ UNCHANGED << config, runnerVars, nthreads, pc, localVars, callerPc, log,
                    sets_after_stop, lastCall, interrupted, halted, waited,
                    analysis, sampling, pwm_call, stop_seen >>

\* pwm.emergency_stop()
pwm_emergency_stop ==
    /\ pwm_call = NoCall
    /\ pwm_us' = set_pwm_us(HW_NEUTRAL_US)
    /\ is_armed' = FALSE
    /\ UNCHANGED << config, runnerVars, nthreads, pc, localVars, callerPc, log,
                    sets_after_stop, lastCall, interrupted, halted, waited,
                    analysis, sampling, pwm_call, stop_seen >>

\* The loop condition of ramp_to, on the branch taken at entry.
RampGoesOn(rising, current, target_us) ==
    IF rising THEN current < target_us ELSE current > target_us

\* pwm.ramp_to(target_us, step_us): current = self._current_pwm_us and the
\* choice of the branch
pwm_ramp_to(target_us, step_us) ==
    /\ pwm_call = NoCall
    /\ LET rising == target_us > pwm_us IN
          pwm_call' = IF RampGoesOn(rising, pwm_us, target_us)
                      THEN [target_us |-> target_us, step_us |-> step_us,
                            rising |-> rising, current |-> pwm_us,
                            start |-> pwm_us]
                      ELSE NoCall
    /\ UNCHANGED << config, pwmVars, runnerVars, nthreads, pc, localVars, callerPc, log,
                    sets_after_stop, lastCall, interrupted, halted, waited,
                    analysis, sampling, stop_seen >>

\* Faulty variant: the step is taken whole, past the target if need be.
pwm_ramp_to_step_whole ==
    /\ pwm_call # NoCall
    /\ LET current == IF pwm_call.rising
                      THEN pwm_call.current + pwm_call.step_us
                      ELSE pwm_call.current - pwm_call.step_us
       IN /\ pwm_us' = set_pwm_us(current)
          /\ pwm_call' = IF RampGoesOn(pwm_call.rising, current, pwm_call.target_us)
                         THEN [pwm_call EXCEPT !.current = current]
                         ELSE NoCall
    /\ UNCHANGED << config, is_armed, runnerVars, nthreads, pc, localVars, callerPc, log,
                    sets_after_stop, lastCall, interrupted, halted, waited,
                    analysis, sampling, stop_seen >>

\* pwm.ramp_to: one iteration of its loop; the call returns when the loop
\* condition fails
pwm_ramp_to_step ==
    /\ pwm_call # NoCall
    /\ LET current == IF pwm_call.rising
                      THEN Min2(pwm_call.current + pwm_call.step_us, pwm_call.target_us)
                      ELSE Max2(pwm_call.current - pwm_call.step_us, pwm_call.target_us)
       IN /\ pwm_us' = set_pwm_us(current)
          /\ pwm_call' = IF RampGoesOn(pwm_call.rising, current, pwm_call.target_us)
                         THEN [pwm_call EXCEPT !.current = current]
                         ELSE NoCall
    /\ UNCHANGED << config, is_armed, runnerVars, nthreads, pc, localVars, callerPc, log,
                    sets_after_stop, lastCall, interrupted, halted, waited,
                    analysis, sampling, stop_seen >>

NextPwm ==
    \/ \E pulse_us \in PwmArguments : pwm_set_pwm_us(pulse_us)
    \/ \E neutral_pwm_us \in PwmArguments : pwm_arm(neutral_pwm_us)
    \/ \E neutral_pwm_us \in PwmArguments : pwm_disarm(neutral_pwm_us)
    \/ pwm_emergency_stop
    \/ \E target_us \in PwmArguments, step_us \in RampSteps : pwm_ramp_to(target_us, step_us)
    \/ pwm_ramp_to_step

SpecPwm == InitPwm /\ [][NextPwm]_vars

\* The loop of ramp_to runs in a thread that is scheduled: an iteration that
\* can be taken is taken.
SpecPwmFair == SpecPwm /\ WF_vars(pwm_ramp_to_step)

\* C30: after any sequence of calls of set_pwm_us, arm, disarm,
\* emergency_stop and ramp_to with any integer arguments, and between the
\* steps of a ramp, the pulse width the controller holds is within
\* 1000..2000.
C30_PulseWidthClamped ==
    /\ pwm_us >= 1000
    /\ pwm_us <= 2000

\* C30 witness: a ramp towards 3000 has taken its local value past 2000
\* while the controller holds 2000.
C30_Witness ==
    /\ pwm_call # NoCall
    /\ pwm_call.target_us = 3000
    /\ pwm_call.current > 2000
    /\ pwm_us = 2000

\* One iteration of a ramp with step > 0, from the local value before it to
\* the value commanded: the command lies between the starting pulse and the
\* target, is at most step away from the previous one, is nearer to the
\* target than the previous one and not beyond it; the iteration after
\* which the call returns commands the target, which the controller then
\* holds when the target is inside the clamp range.
RampIterationApproaches ==
    (pwm_call # NoCall /\ pwm_call.step_us > 0 /\ pwm_call' # pwm_call) =>
        LET target == pwm_call.target_us
            before == pwm_call.current
            lo == Min2(pwm_call.start, target)
            hi == Max2(pwm_call.start, target)
        IN IF pwm_call' # NoCall
           THEN LET commanded == pwm_call'.current IN
                   /\ lo <= commanded /\ commanded <= hi
                   /\ Abs(commanded - before) <= pwm_call.step_us
                   /\ Abs(target - commanded) < Abs(target - before)
                   /\ (before < target => commanded < target)
                   /\ (before > target => commanded > target)
                   /\ pwm_us' = set_pwm_us(commanded)
           ELSE /\ Abs(target - before) <= pwm_call.step_us
                /\ pwm_us' = set_pwm_us(target)
                /\ (1000 <= target /\ target <= 2000) => pwm_us' = target

\* C31: ramp_to(target, step, delay) with step > 0 terminates and
\* approaches the target monotonically: every commanded pulse width lies
\* between the starting pulse and the target, successive commands differ by
\* at most step and never move away from the target or overshoot it, and
\* the last command equals the target.
C31_RampApproachesAndEnds ==
    /\ [][RampIterationApproaches]_vars
    /\ (pwm_call # NoCall /\ pwm_call.step_us > 0) ~> (pwm_call = NoCall)

\* C31 witness: a ramp from 1500 down to 1240 in steps of 25 has commanded
\* 1250 and has one short iteration left.
C31_Witness ==
    /\ pwm_call # NoCall
    /\ pwm_call.start = 1500
    /\ pwm_call.target_us = 1240
    /\ pwm_call.step_us = 25
    /\ pwm_call.current = 1250
    /\ pwm_us = 1250

----------------------------------------------------------------------------
(* Starting a test from the window: MainWindow._start_test with             *)
(* ConfigFrame.validate and ConfigFrame.get_config, then the run            *)

\* What the entry fields of the form may hold.
FormMins == {499, 975, 1475, 1500}
FormMaxs == {1000, 1500, 1525, 2501}
FormNeutrals == {1000, 1500}
FormIds == {"", "T1"}

\* The form: the three pulse widths, the thruster id, and whether every
\* numeric field parses (IntVar.get raises TclError when one does not).
Forms ==
    [min_pwm : FormMins, max_pwm : FormMaxs, neutral : FormNeutrals,
     id : FormIds, numeric : BOOLEAN]

\* ConfigFrame.validate
validate(form) ==
    IF ~form.numeric THEN FALSE
    ELSE IF form.min_pwm >= form.max_pwm THEN FALSE
    ELSE IF ~(form.min_pwm <= form.neutral /\ form.neutral <= form.max_pwm) THEN FALSE
    ELSE IF form.min_pwm < 500 \/ form.max_pwm > 2500 THEN FALSE
    ELSE IF form.id = "" THEN FALSE
    ELSE TRUE

\* ConfigFrame.get_config, with the runner's default step_us
get_config(form) ==
    [min_pwm_us |-> form.min_pwm, max_pwm_us |-> form.max_pwm,
     neutral_pwm_us |-> form.neutral, step_us |-> RAMP_STEP_US]

\* The window is open and no test has been started; config holds a
\* placeholder until the first runner is constructed.
InitStartTest ==
    /\ Constructed
    /\ analysis = NoAnalysis
    /\ sampling = NoSampling
    /\ pwm_call = NoCall

\* MainWindow._start_test for the first test: validate, ask for
\* confirmation, construct the TestRunner on the form's configuration (its
\* status fresh) and call its start().  A rejected form or a declined
\* confirmation leaves everything as it was.
gui_start_test ==
    /\ callerPc = "idle"
    /\ nthreads = 0
    /\ \E form \in Forms, confirmed \in BOOLEAN :
          IF validate(form) /\ confirmed
          THEN /\ config' = get_config(form)
               /\ stop_requested' = FALSE
               /\ pause_requested' = FALSE
               /\ nthreads' = 1
               /\ test_points' = 1
               /\ lists' = [lists EXCEPT ![1] = << >>]
               /\ result' = None
               /\ thread' = 1
               /\ pc' = [pc EXCEPT ![1] = "begin"]
               /\ status' = [is_running |-> FALSE, is_paused |-> FALSE,
                             current_pwm_us |-> HW_NEUTRAL_US,
                             progress_percent |-> <<0, 1>>,
                             current_point |-> None, error_message |-> "None"]
               /\ sets_after_stop' = [t \in Threads |-> 0]
               /\ interrupted' = FALSE
               /\ halted' = FALSE
               /\ waited' = FALSE
               /\ lastCall' = "other"
               /\ UNCHANGED << pwmVars, localVars, callerPc, log, analysis, sampling,
                               pwm_call, stop_seen >>
          ELSE UNCHANGED vars

NextStartTest ==
    \/ gui_start_test
    \/ stop
    \/ stop_joined
    \/ stop_timeout
    \/ pause
    \/ resume
    \/ emergency_stop
    \/ \E t \in Threads : run_test(t)

SpecStartTest == InitStartTest /\ [][NextStartTest]_vars

\* C32: a run is started only with a configuration satisfying
\* min < neutral < max, both strict, with all three setpoints inside
\* 500..2500; every other configuration is rejected before the runner is
\* constructed or started.
C32_StartedOnlyIfStrictlyValid ==
    nthreads > 0 =>
        /\ config.min_pwm_us < config.neutral_pwm_us
        /\ config.neutral_pwm_us < config.max_pwm_us
        /\ \A v \in {config.min_pwm_us, config.neutral_pwm_us, config.max_pwm_us} :
              500 <= v /\ v <= 2500

\* Path t emits its complete event in this step.
EmitsComplete(t) ==
    /\ Len(log'[t]) = Len(log[t]) + 1
    /\ log'[t][Len(log'[t])].kind = "complete"

\* C33: if stop() or emergency_stop() was called at any time after a run
\* was started and before it reaches the point of emitting its completion
\* event, no complete event is emitted for that run.
C33_NoCompleteAfterStop ==
    [][\A t \in Threads : EmitsComplete(t) => ~stop_seen[t]]_vars

----------------------------------------------------------------------------
(* Progress of the sweep *)

\* A progress value is the pair << count * 100, total >>; it lies within
\* 0..100 when 0 <= count * 100 <= 100 * total.
WithinPercent(p) == p[2] > 0 /\ 0 <= p[1] /\ p[1] <= 100 * p[2]

LastSetpoint(c) == ExpectedSetpoints(c)[Len(ExpectedSetpoints(c))]

\* C34: the status progress percent and every emitted progress value lie
\* within 0..100; a progress event carries 100 exactly when the point
\* sampled just before it is the last setpoint of the sweep sequence, and a
\* run never samples more steps than its computed total step count.
C34_ProgressWithinBounds ==
    /\ WithinPercent(status.progress_percent)
    /\ \A t \in Threads :
          /\ step_count[t] <= total_steps[t]
          /\ CountKind(t, "point") <= TotalSteps(config)
          /\ \A i \in DOMAIN log[t] :
                log[t][i].kind = "progress" =>
                    /\ WithinPercent(log[t][i].val)
                    /\ i > 1 /\ log[t][i-1].kind = "point"
                    /\ (log[t][i].val[1] = 100 * log[t][i].val[2]
                          <=> log[t][i-1].val[1] = LastSetpoint(config))

\* C34 witness: a sweep whose stride does not reach max (1450..1490 by 25)
\* has sampled its last setpoint 1475 and reported 100 percent, after having
\* reported 50 percent for 1450.
C34_Witness ==
    \E t \in Threads :
        /\ config.max_pwm_us # LastSetpoint(config)
        /\ status.progress_percent[1] = 100 * status.progress_percent[2]
        /\ \E i, j \in DOMAIN log[t] :
              /\ i < j
              /\ log[t][i].kind = "progress"
              /\ 0 < log[t][i].val[1] /\ log[t][i].val[1] < 100 * log[t][i].val[2]
              /\ log[t][j].kind = "progress"
              /\ log[t][j].val[1] = 100 * log[t][j].val[2]
              /\ log[t][j-1].val[1] = LastSetpoint(config)

----------------------------------------------------------------------------
(* Actuator commands after a stop request *)

DistanceFromNeutral(us) == Abs(us - config.neutral_pwm_us)

\* C35: once a stop has been requested of the single execution path, no step
\* of that path outside its failure handler moves the pulse width farther
\* from neutral; a stop requested during arming or taring therefore reaches
\* the end of the run without the ramp to the minimum setpoint.
C35_NoOutwardCommandAfterStop ==
    [][ \A t \in Threads :
          (nthreads = 1 /\ stop_seen[t] /\ stop_requested /\ pc[t] # "except"
             /\ run_test(t)) =>
              DistanceFromNeutral(pwm_us') <= DistanceFromNeutral(pwm_us) ]_vars

----------------------------------------------------------------------------
(* The setpoint recorded with a point *)

\* The step of thread t appends a point to the list it collects.
RecordsPoint(t) ==
    /\ run_test(t)
    /\ Len(lists'[test_points]) = Len(lists[test_points]) + 1

\* C36: for every configuration the form validation accepts with neutral
\* strictly between min and max, a point recorded by a run that no stop or
\* emergency stop has touched carries the pulse width the controller holds
\* when the point is taken.
C36_RecordedSetpointIsHeld ==
    [][ \A t \in Threads :
          (/\ RecordsPoint(t) /\ ~stop_seen[t]
           /\ config.min_pwm_us < config.neutral_pwm_us
           /\ config.neutral_pwm_us < config.max_pwm_us) =>
              lists'[test_points][Len(lists'[test_points])].pwm_us = pwm_us ]_vars

----------------------------------------------------------------------------
(* The complete event of a run that sampled every setpoint *)

\* Thread t has sampled every setpoint of the sequence and no driver call of
\* its run has failed.
SampledAll(t) ==
    /\ CountKind(t, "point") = TotalSteps(config)
    /\ ~HasKind(t, "raise")
    /\ ~HasKind(t, "error")

\* C37 as stated: the single execution path of a runner, once it has ended
\* after sampling every setpoint without a driver failure, has emitted
\* exactly one complete event, carrying all floor((max-min)/step)+1 points.
C37_CompleteWhateverTheCalls ==
    \A t \in Threads :
        (nthreads = 1 /\ pc[t] = "done" /\ SampledAll(t)) =>
            /\ CountKind(t, "complete") = 1
            /\ ValuesOf(t, "complete") = << TotalSteps(config) >>

\* C37 amended: a run emits at most one complete event; a run that sampled
\* every setpoint without a driver failure emits it at its completion check
\* exactly when no stop request stands there, and when it is the only path
\* started on the runner the event and the stored result carry all
\* floor((max-min)/step)+1 points.
C37_CompleteUnlessStopStands ==
    /\ [](\A t \in Threads : CountKind(t, "complete") <= 1)
    /\ [][ \A t \in Threads :
             (pc[t] = "finish" /\ pc'[t] = "done" /\ SampledAll(t)) =>
                 /\ EmitsComplete(t) <=> ~stop_requested
                 /\ result' # None
                 /\ nthreads = 1 =>
                       /\ Len(lists'[result'[1].test_points]) = TotalSteps(config)
                       /\ EmitsComplete(t) =>
                             log'[t][Len(log'[t])].val[1] = TotalSteps(config) ]_vars

\* C37 witness: the only path of the runner sampled every setpoint, a stop
\* requested after the last sample stood at the completion check, and the
\* run ended with its result stored and no complete event.
C37_Witness ==
    \E t \in Threads :
        /\ nthreads = 1 /\ pc[t] = "done" /\ SampledAll(t)
        /\ stop_requested
        /\ CountKind(t, "complete") = 0
        /\ result # None
        /\ Len(lists[result[1].test_points]) = TotalSteps(config)

----------------------------------------------------------------------------
(* The running and paused flags of the status *)

\* C38: the running flag of the status is true exactly while an execution
\* path is active, from the start() that launched it until the path has
\* reached its terminal state, and whenever the running flag is false the
\* paused flag is false too.
C38_RunningExactlyWhileActive ==
    /\ status.is_running <=> (\E t \in Threads : Active(t))
    /\ ~status.is_running => ~status.is_paused

----------------------------------------------------------------------------
(* The transient state of a new run *)

\* C39: a start() accepted because the running flag is not set clears the
\* stop request and the pause request, gives the run an empty point list
\* and no result, whatever was called before; the run it starts, left
\* uninterrupted with no other path beside it, ends having performed the
\* full setpoint sequence and emitted exactly one complete event with all
\* its points.
C39_FreshStateOnStart ==
    /\ [][ (start /\ ~status.is_running) =>
              /\ ~stop_requested' /\ ~pause_requested'
              /\ lists'[test_points'] = << >>
              /\ result' = None
              /\ Active(thread)' ]_vars
    /\ [](\A t \in Threads :
            (t = thread /\ pc[t] = "done" /\ ~interrupted) =>
                /\ ValuesOf(t, "set_pwm") = ExpectedSetpoints(config)
                /\ ValuesOf(t, "point") = ExpectedSetpoints(config)
                /\ ValuesOf(t, "complete") = << TotalSteps(config) >>
                /\ log[t][Len(log[t])].kind = "complete"
                /\ ~stop_requested /\ ~pause_requested)

\* C39 witness: a first run was stopped before it had sampled every setpoint
\* and emitted no complete; a second run, started after it had ended and
\* left uninterrupted, has ended with the full sequence and its complete.
C39_Witness ==
    /\ pc[1] = "done"
    /\ CountKind(1, "point") < TotalSteps(config)
    /\ ~HasKind(1, "error")
    /\ CountKind(1, "complete") = 0
    /\ thread = 2 /\ pc[2] = "done" /\ ~interrupted
    /\ (config.max_pwm_us - config.min_pwm_us) % config.step_us = 0
    /\ ValuesOf(2, "complete") = << TotalSteps(config) >>

----------------------------------------------------------------------------
(* Termination of a run *)

\* From some point on no pause request stands, or a stop request stands
\* with it: every pause has been followed by a resume or a stop.
PausesEnd == <>[](~pause_requested \/ stop_requested)

\* C40: the sweep loop of a run commands at most floor((max-min)/step)+1
\* setpoints, and, when every pause is eventually followed by a resume or a
\* stop, every started execution path eventually reaches its terminal state.
C40_RunTerminates ==
    /\ [](\A t \in Threads : CountKind(t, "set_pwm") <= TotalSteps(config))
    /\ PausesEnd => \A t \in Threads : Active(t) ~> (pc[t] = "done")

\* C40 witness: a run that waited in the pause loop and was resumed has
\* commanded every setpoint and reached its terminal state with a complete
\* event.
C40_Witness ==
    \E t \in Threads :
        /\ nthreads = 1 /\ pc[t] = "done"
        /\ waited /\ ~stop_requested /\ ~pause_requested
        /\ CountKind(t, "set_pwm") = TotalSteps(config)
        /\ CountKind(t, "complete") = 1

====
